---- MODULE Spec2Model ----
(***************************************************************************)
(* Model of the task-routing engine of configurable_agents_langgraph:      *)
(*   src/src/hierarchical/enhanced_routing.py     (EnhancedRoutingEngine)  *)
(*   src/src/hierarchical/enhanced_supervisor.py  (EnhancedSupervisorAgent)*)
(*   src/src/hierarchical/hierarchical_agent.py   (HierarchicalAgentTeam)  *)
(*   src/src/hierarchical/team_coordinator.py     (TeamCoordinator)        *)
(*   src/src/hierarchical/supervisor.py           (SupervisorAgent)        *)
(*   src/src/hierarchical/worker_agent.py         (WorkerAgent)            *)
(*                                                                         *)
(* Python floats are modelled as exact rationals <<n, d>> (d > 0, lowest   *)
(* terms); strings are TLA+ strings, with the text operations of the code  *)
(* (lower, substring test, split, \b\w+\b tokenisation) computed on them.  *)
(***************************************************************************)
EXTENDS Integers, Sequences, FiniteSets, TLC

(***************************************************************************)
(* Exact rational arithmetic, standing for Python float arithmetic.        *)
(***************************************************************************)
Abs(x) == IF x < 0 THEN -x ELSE x

RECURSIVE GCD(_, _)
GCD(a, b) == IF b = 0 THEN a ELSE GCD(b, a % b)

Rat(n, d) ==
    LET g == GCD(Abs(n), Abs(d))
        s == IF d < 0 THEN -1 ELSE 1
    IN  <<(s * n) \div g, (s * d) \div g>>

RInt(n) == <<n, 1>>
RAdd(a, b) == Rat(a[1] * b[2] + b[1] * a[2], a[2] * b[2])
RSub(a, b) == Rat(a[1] * b[2] - b[1] * a[2], a[2] * b[2])
RMul(a, b) == Rat(a[1] * b[1], a[2] * b[2])
RDiv(a, b) == Rat(a[1] * b[2], a[2] * b[1])
RLt(a, b) == a[1] * b[2] < b[1] * a[2]
RLe(a, b) == a[1] * b[2] <= b[1] * a[2]
RMin(a, b) == IF RLt(b, a) THEN b ELSE a
RMax(a, b) == IF RLt(a, b) THEN b ELSE a
RZero == RInt(0)
ROne == RInt(1)

(***************************************************************************)
(* Text operations.                                                        *)
(***************************************************************************)
Upper == <<"A", "B", "C", "D", "E", "F", "G", "H", "I", "J", "K", "L", "M",
           "N", "O", "P", "Q", "R", "S", "T", "U", "V", "W", "X", "Y", "Z">>
LowerOf == <<"a", "b", "c", "d", "e", "f", "g", "h", "i", "j", "k", "l", "m",
             "n", "o", "p", "q", "r", "s", "t", "u", "v", "w", "x", "y", "z">>

CharAt(s, i) == SubSeq(s, i, i)

LowerChar(c) ==
    IF \E k \in 1..26 : Upper[k] = c
    THEN LowerOf[CHOOSE k \in 1..26 : Upper[k] = c]
    ELSE c

\* str.lower()
RECURSIVE Lower(_)
Lower(s) ==
    IF Len(s) = 0 THEN ""
    ELSE LowerChar(CharAt(s, 1)) \o Lower(SubSeq(s, 2, Len(s)))

\* the Python test `sub in s` on strings
Contains(s, sub) ==
    \E i \in 0..(Len(s) - Len(sub)) : SubSeq(s, i + 1, i + Len(sub)) = sub

IsSpace(c) == c = " "

\* str.split(): the maximal runs of non-blank characters
RECURSIVE SplitFrom(_, _, _)
SplitFrom(s, i, cur) ==
    IF i > Len(s)
    THEN IF cur = "" THEN <<>> ELSE <<cur>>
    ELSE IF IsSpace(CharAt(s, i))
         THEN (IF cur = "" THEN <<>> ELSE <<cur>>) \o SplitFrom(s, i + 1, "")
         ELSE SplitFrom(s, i + 1, cur \o CharAt(s, i))

Split(s) == SplitFrom(s, 1, "")

IsWordChar(c) ==
    \/ \E k \in 1..26 : LowerOf[k] = c \/ Upper[k] = c
    \/ c \in {"0", "1", "2", "3", "4", "5", "6", "7", "8", "9", "_"}

\* re.findall(r'\b\w+\b', s): the maximal runs of word characters
RECURSIVE FindWordsFrom(_, _, _)
FindWordsFrom(s, i, cur) ==
    IF i > Len(s)
    THEN IF cur = "" THEN <<>> ELSE <<cur>>
    ELSE IF ~IsWordChar(CharAt(s, i))
         THEN (IF cur = "" THEN <<>> ELSE <<cur>>) \o FindWordsFrom(s, i + 1, "")
         ELSE FindWordsFrom(s, i + 1, cur \o CharAt(s, i))

FindWords(s) == FindWordsFrom(s, 1, "")

\* generic sequence helpers
SeqToSet(q) == {q[i] : i \in 1..Len(q)}

RECURSIVE SelectSeqBy(_, _)
SelectSeqBy(q, keep) ==
    IF q = <<>> THEN <<>>
    ELSE (IF Head(q) \in keep THEN <<Head(q)>> ELSE <<>>) \o SelectSeqBy(Tail(q), keep)

Prefix(q, n) == SubSeq(q, 1, IF Len(q) < n THEN Len(q) ELSE n)

\* the list slice q[1:3]
Slice13(q) == SubSeq(q, 2, IF Len(q) < 3 THEN Len(q) ELSE 3)

\* dict.keys() after inserting the entries of q in order: first occurrences
RECURSIVE Dedup(_)
Dedup(q) ==
    IF q = <<>> THEN <<>>
    ELSE LET r == Dedup(SubSeq(q, 1, Len(q) - 1))
             x == q[Len(q)]
         IN  IF x \in SeqToSet(r) THEN r ELSE Append(r, x)

RECURSIVE SumSeq(_)
SumSeq(q) == IF q = <<>> THEN 0 ELSE Head(q) + SumSeq(Tail(q))

\* the number of entries of the list q for which the test holds
CountIn(q, good) == Cardinality({i \in 1..Len(q) : q[i] \in good})

\* list.sort(key=score, reverse=True) on a list of <<id, score>>: stable
InsertDesc(r, x) ==
    LET k == Cardinality({i \in 1..Len(r) : RLe(x[2], r[i][2])})
    IN  SubSeq(r, 1, k) \o <<x>> \o SubSeq(r, k + 1, Len(r))

RECURSIVE SortDesc(_)
SortDesc(q) ==
    IF q = <<>> THEN <<>>
    ELSE InsertDesc(SortDesc(SubSeq(q, 1, Len(q) - 1)), q[Len(q)])

\* max(keys, key=score): the position of the first key, in list order, of
\* greatest score (scores[i] is the score of the i-th key)
FirstMax(scores) ==
    CHOOSE i \in 1..Len(scores) :
        /\ \A j \in 1..Len(scores) : RLe(scores[j], scores[i])
        /\ \A j \in 1..(i - 1) : RLt(scores[j], scores[i])

(***************************************************************************)
(* RoutingStrategy, AgentCapability, RoutingDecision.                      *)
(***************************************************************************)
RoutingStrategy ==
    {"keyword_based", "llm_based", "rule_based", "hybrid",
     "capability_based", "workload_based", "performance_based"}

\* AgentCapability with the dataclass defaults for the fields not given
AgentCapability(caps, kws, prio, cw, mw) ==
    [capabilities |-> caps, specialization_keywords |-> kws, priority |-> prio,
     current_workload |-> cw, max_workload |-> mw,
     average_response_time |-> RZero, success_rate |-> ROne]

availability(a) ==
    IF a.max_workload = 0 THEN RZero
    ELSE RMax(RZero, RSub(ROne, Rat(a.current_workload, a.max_workload)))

performance_score(a) ==
    LET time_score == RMax(RZero, RSub(ROne, RDiv(a.average_response_time, RInt(60))))
    IN  RAdd(RAdd(RMul(a.success_rate, Rat(1, 2)), RMul(time_score, Rat(1, 5))),
             RMul(availability(a), Rat(3, 10)))

RoutingDecision(target, confidence, reasoning, strategy, alternatives, error) ==
    [target |-> target, confidence |-> confidence, reasoning |-> reasoning,
     strategy_used |-> strategy, alternative_targets |-> alternatives,
     error |-> error]

\* the outcome of a call: a value returned, or an exception raised
Returned(v) == [raised |-> "", value |-> v]
Raised(msg) == [raised |-> msg, value |-> <<>>]

(***************************************************************************)
(* The workers a caller can build (WorkerAgent objects) and the inputs of  *)
(* the operations.                                                         *)
(***************************************************************************)
AgentIds == {"researcher", "writer"}

\* WorkerAgent: get_available_tools() and description of each worker; a
\* worker built without a description gets "Worker agent: <name>"
WorkerTools(name) ==
    CASE name = "researcher" -> <<"research", "web_search">>
      [] name = "writer" -> <<"writing">>
      [] OTHER -> <<>>

WorkerDescription(name) == "Worker agent: " \o name

\* the specialization keywords add_worker takes from the description
DescriptionKeywords(description) ==
    LET words == Split(Lower(description))
    IN  SelectSeqBy(words, {w \in SeqToSet(words) : Len(w) > 3})

\* the priority a worker object carries (getattr(worker, 'priority', 1))
DefaultPriority == 1
DefaultMaxWorkload == 10

WorkerCapability(name) ==
    AgentCapability(WorkerTools(name), DescriptionKeywords(WorkerDescription(name)),
                    DefaultPriority, 0, DefaultMaxWorkload)

\* the records a caller registers for a worker: the one add_worker builds, and
\* one with other (priority, current_workload, max_workload)
OtherProfile(name) ==
    CASE name = "researcher" -> <<-1, 2, 1>>
      [] OTHER -> <<-3, 0, 0>>

\* the record of a worker with a long history of slow, failed tasks
SeasonedCapability(name) ==
    [WorkerCapability(name) EXCEPT !.average_response_time = RInt(90),
                                   !.success_rate = Rat(1, 10)]

\* the record of a worker with four capabilities or more, four of ten tasks
\* in hand and four tasks in five done well
ExpertCapability(name) ==
    [WorkerCapability(name) EXCEPT
        !.capabilities = WorkerTools(name) \o <<"analysis", "planning", "review">>,
        !.current_workload = 4,
        !.success_rate = Rat(4, 5)]

RegisterInputs(name) ==
    {WorkerCapability(name),
     AgentCapability(WorkerTools(name), DescriptionKeywords(WorkerDescription(name)),
                     OtherProfile(name)[1], OtherProfile(name)[2], OtherProfile(name)[3])}

Tasks == {"research AI trends", "write a blog post"}

Contexts ==
    {[priority |-> "normal", complexity |-> "medium"],
     [priority |-> "high", complexity |-> "medium"],
     [priority |-> "normal", complexity |-> "high"]}

\* the task the strategies that do not read the task are called with
AnyTask == "research AI trends"

\* the tasks of the rule-based calls: a short one, one that says urgent, and
\* one of ten words or more
RuleTasks ==
    {"research AI trends", "URGENT restart the service",
     "summarize the quarterly report and list every open risk for the board"}

DefaultContext == [priority |-> "normal", complexity |-> "medium"]

Oracle(fails, text, json, chosen, confidence, conf_ok, alts) ==
    [fails |-> fails, text |-> text, json |-> json, chosen_agent |-> chosen,
     confidence |-> confidence, conf_ok |-> conf_ok, alternatives |-> alts]

NoOracle == Oracle(TRUE, "", "invalid", "", RZero, FALSE, <<>>)

OracleResponses ==
    {NoOracle,
     Oracle(FALSE, "chosen_agent researcher alternatives writer", "object",
            "researcher", Rat(4, 5), TRUE, <<"writer">>),
     Oracle(FALSE, "chosen_agent writer alternatives writer researcher", "object",
            "writer", Rat(3, 2), TRUE, <<"writer", "researcher">>),
     Oracle(FALSE, "chosen_agent researcher", "object",
            "researcher", Rat(-1, 5), TRUE, <<>>),
     Oracle(FALSE, "chosen_agent nobody", "object", "nobody", Rat(1, 2), TRUE, <<>>),
     Oracle(FALSE, "chosen_agent writer confidence high", "object",
            "writer", RZero, FALSE, <<>>),
     Oracle(FALSE, "I would give this to the Writer", "invalid", "", RZero, FALSE, <<>>),
     Oracle(FALSE, "[1, 2]", "not_object", "", RZero, FALSE, <<>>)}

(***************************************************************************)
(* EnhancedRoutingEngine: the tables built at construction.                *)
(***************************************************************************)
_build_default_keyword_mappings ==
    << <<"web_search", <<"search", "find", "lookup", "web", "internet", "browse", "website">> >>,
       <<"research", <<"research", "analyze", "investigate", "study", "examine", "explore">> >>,
       <<"writing", <<"write", "compose", "create", "draft", "document", "article", "content">> >>,
       <<"coding", <<"code", "program", "develop", "implement", "debug", "script", "function">> >>,
       <<"support", <<"help", "assist", "support", "troubleshoot", "fix", "resolve", "issue">> >>,
       <<"analysis", <<"analyze", "examine", "evaluate", "assess", "review", "check">> >>,
       <<"data", <<"data", "statistics", "numbers", "metrics", "chart", "graph">> >> >>

stop_words ==
    {"the", "a", "an", "and", "or", "but", "in", "on", "at", "to", "for", "of",
     "with", "by", "is", "are", "was", "were", "be", "been", "have", "has", "had",
     "do", "does", "did", "will", "would", "could", "should", "may", "might",
     "can", "this", "that", "these", "those"}

_extract_task_keywords(task) ==
    LET words == FindWords(Lower(task))
        keywords == SelectSeqBy(words, {w \in SeqToSet(words) :
                                            Len(w) > 2 /\ w \notin stop_words})
    IN  Prefix(keywords, 10)

LowerAll(q) == [i \in 1..Len(q) |-> Lower(q[i])]

\* the number of entries of the list q that occur in the text
HitsIn(q, text) == Cardinality({i \in 1..Len(q) : Contains(text, q[i])})

(***************************************************************************)
(* The text computations of the strategies depend on the task and on the   *)
(* capability and keyword lists of a record only; they are tabulated once  *)
(* over the tasks, worker descriptions and oracle texts of the model.      *)
(***************************************************************************)
CapabilityLists == {WorkerTools(n) : n \in AgentIds}
KeywordLists == {DescriptionKeywords(WorkerDescription(n)) : n \in AgentIds}
OracleTexts == {o.text : o \in OracleResponses}

\* the score loop of _keyword_based_routing for one agent
KeywordTextScore(task, capabilities, specialization_keywords) ==
    LET task_lower == Lower(task)
        caps == LowerAll(capabilities)
        km == _build_default_keyword_mappings
    IN  2 * HitsIn(caps, task_lower)
        + 3 * HitsIn(LowerAll(specialization_keywords), task_lower)
        + SumSeq([k \in 1..Len(km) |->
                    IF km[k][1] \in SeqToSet(caps)
                    THEN HitsIn(km[k][2], task_lower) ELSE 0])

KeywordScoreTable ==
    [t \in Tasks |-> [c \in CapabilityLists |-> [k \in KeywordLists |->
        KeywordTextScore(t, c, k)]]]

\* the score loop of _capability_based_routing for one agent, priority apart
CapabilityTextScore(task, capabilities, specialization_keywords) ==
    LET task_keywords == _extract_task_keywords(task)
    IN  5 * CountIn(task_keywords, SeqToSet(LowerAll(capabilities)))
        + 3 * HitsIn(LowerAll(specialization_keywords), Lower(task))

CapabilityScoreTable ==
    [t \in Tasks |-> [c \in CapabilityLists |-> [k \in KeywordLists |->
        CapabilityTextScore(t, c, k)]]]

\* what the rule conditions read of the task
TaskFacts ==
    [t \in Tasks \cup RuleTasks |-> [urgent |-> Contains(Lower(t), "urgent"),
                      words |-> Len(Split(Lower(t)))]]

\* agent.lower() in text.lower(), for the oracle's texts
MentionsTable ==
    [x \in OracleTexts |-> [n \in AgentIds |-> Contains(Lower(x), Lower(n))]]

(***************************************************************************)
(* _keyword_based_routing                                                  *)
(***************************************************************************)
KeywordScore(ac, task, agent_id) ==
    KeywordScoreTable[task][ac[agent_id].capabilities]
                     [ac[agent_id].specialization_keywords]

_keyword_based_routing(ac, task, agents) ==
    LET keys == Dedup(agents)
        scores == [i \in 1..Len(keys) |-> RInt(KeywordScore(ac, task, keys[i]))]
        items == [i \in 1..Len(keys) |-> <<keys[i], scores[i]>>]
        sorted == SortDesc(items)
        best == FirstMax(scores)
        best_agent == keys[best]
        max_score == scores[best]
        second_best_score == IF Len(keys) > 1 THEN sorted[2][2] ELSE RZero
        confidence == RMin(Rat(9, 10),
                           RDiv(max_score, RMax(ROne, RAdd(max_score, second_best_score))))
    IN  Returned(RoutingDecision(best_agent, confidence, "Keyword matching",
                                 "keyword_based", Slice13(sorted), ""))

(***************************************************************************)
(* _capability_based_routing                                               *)
(***************************************************************************)
CapabilityScore(ac, task, agent_id) ==
    CapabilityScoreTable[task][ac[agent_id].capabilities]
                        [ac[agent_id].specialization_keywords]
    + ac[agent_id].priority

CapabilityConfidence(max_score) ==
    RMin(Rat(19, 20), Rat(max_score, max_score + 3))

_capability_based_routing(ac, task, agents) ==
    LET keys == Dedup(agents)
        scores == [i \in 1..Len(keys) |-> CapabilityScore(ac, task, keys[i])]
        best == FirstMax([i \in 1..Len(keys) |-> RInt(scores[i])])
        best_agent == keys[best]
        max_score == scores[best]
    IN  IF max_score + 3 = 0
        THEN Raised("division by zero")
        ELSE Returned(RoutingDecision(best_agent, CapabilityConfidence(max_score),
                                      "Best capability match", "capability_based",
                                      <<>>, ""))

(***************************************************************************)
(* _workload_based_routing, _performance_based_routing                     *)
(***************************************************************************)
_workload_based_routing(ac, task, agents) ==
    LET available_agents ==
            SortDesc([i \in 1..Len(agents) |-> <<agents[i], availability(ac[agents[i]])>>])
        best_agent == available_agents[1][1]
        avail == available_agents[1][2]
    IN  Returned(RoutingDecision(best_agent, RMul(avail, Rat(4, 5)), "Best availability",
                                 "workload_based", Slice13(available_agents), ""))

_performance_based_routing(ac, task, agents) ==
    LET performance_agents ==
            SortDesc([i \in 1..Len(agents) |->
                        <<agents[i], performance_score(ac[agents[i]])>>])
        best_agent == performance_agents[1][1]
        performance == performance_agents[1][2]
    IN  Returned(RoutingDecision(best_agent, RMul(performance, Rat(9, 10)),
                                 "Best performance score", "performance_based",
                                 Slice13(performance_agents), ""))

(***************************************************************************)
(* _rule_based_routing over the rules of _build_default_rules.  A context  *)
(* is the part of the dict the rules read: [priority, complexity].         *)
(***************************************************************************)
RuleCondition(k, task, ctx) ==
    CASE k = 1 -> ctx.priority = "high" \/ TaskFacts[task].urgent
      [] k = 2 -> TaskFacts[task].words < 10
      [] k = 3 -> TaskFacts[task].words > 50 \/ ctx.complexity = "high"

RuleFilter(k, agent) ==
    CASE k = 1 -> RLt(Rat(4, 5), performance_score(agent))
      [] k = 2 -> RLt(Rat(7, 10), availability(agent))
      [] k = 3 -> RLt(Rat(7, 10), performance_score(agent)) /\ Len(agent.capabilities) > 3

_build_default_rules ==
    << [name |-> "urgent_high_priority", confidence |-> Rat(9, 10),
        reasoning |-> "High priority task routed to high-performance agent"],
       [name |-> "simple_task_available_agent", confidence |-> Rat(7, 10),
        reasoning |-> "Simple task routed to available agent"],
       [name |-> "complex_task_expert", confidence |-> Rat(17, 20),
        reasoning |-> "Complex task routed to expert agent"] >>

\* the scan that stops at the first rule whose condition holds
_rule_based_routing_first_condition(ac, task, agents, ctx) ==
    LET rules == _build_default_rules
        holds(k) == RuleCondition(k, task, ctx)
    IN  IF /\ \E k \in 1..Len(rules) : holds(k)
           /\ \E i \in 1..Len(agents) :
                  RuleFilter(CHOOSE k \in 1..Len(rules) :
                                 holds(k) /\ \A j \in 1..(k - 1) : ~holds(j),
                             ac[agents[i]])
        THEN LET k == CHOOSE k \in 1..Len(rules) :
                          holds(k) /\ \A j \in 1..(k - 1) : ~holds(j)
                 i == CHOOSE i \in 1..Len(agents) :
                          /\ RuleFilter(k, ac[agents[i]])
                          /\ \A j \in 1..(i - 1) : ~RuleFilter(k, ac[agents[j]])
             IN  Returned(RoutingDecision(agents[i], rules[k].confidence,
                                          rules[k].reasoning, "rule_based", <<>>, ""))
        ELSE Returned(RoutingDecision(agents[1], Rat(3, 10),
                                      "No rules matched, using first available agent",
                                      "rule_based", <<>>, ""))

_rule_based_routing(ac, task, agents, ctx) ==
    LET rules == _build_default_rules
        fires(k) == /\ RuleCondition(k, task, ctx)
                    /\ \E i \in 1..Len(agents) : RuleFilter(k, ac[agents[i]])
    IN  IF \E k \in 1..Len(rules) : fires(k)
        THEN LET k == CHOOSE k \in 1..Len(rules) :
                          fires(k) /\ \A j \in 1..(k - 1) : ~fires(j)
                 i == CHOOSE i \in 1..Len(agents) :
                          /\ RuleFilter(k, ac[agents[i]])
                          /\ \A j \in 1..(i - 1) : ~RuleFilter(k, ac[agents[j]])
             IN  Returned(RoutingDecision(agents[i], rules[k].confidence,
                                          rules[k].reasoning, "rule_based", <<>>, ""))
        ELSE Returned(RoutingDecision(agents[1], Rat(3, 10),
                                      "No rules matched, using first available agent",
                                      "rule_based", <<>>, ""))

(***************************************************************************)
(* _llm_based_routing.  The oracle's answer to llm.invoke is an input:     *)
(*   fails : invoke raises;  text : the response text;                     *)
(*   json  : what json.loads makes of the text: "invalid" (JSONDecodeError)*)
(*           "not_object" (valid JSON, no dict) or "object", a dict with   *)
(*           the fields chosen_agent, confidence, alternatives;            *)
(*   conf_ok : whether float() accepts the dict's confidence.              *)
(***************************************************************************)
_extract_agent_from_text(text, agents) ==
    LET found(i) == MentionsTable[text][agents[i]]
    IN  IF \E i \in 1..Len(agents) : found(i)
        THEN agents[CHOOSE i \in 1..Len(agents) :
                        found(i) /\ \A j \in 1..(i - 1) : ~found(j)]
        ELSE agents[1]

LlmFallbackParsing(agents, oracle) ==
    Returned(RoutingDecision(_extract_agent_from_text(oracle.text, agents), Rat(3, 5),
                             "LLM analysis", "llm_based", <<>>, ""))

\* the oracle's choice taken without the membership test
LlmChosenUnchecked(chosen_agent, agents) == TRUE
LlmChosenAccepted(chosen_agent, agents) == chosen_agent \in SeqToSet(agents)

LlmConfidence(c) == c

_llm_based_routing(llm, agents, oracle) ==
    IF ~llm THEN Raised("LLM not available for LLM-based routing")
    ELSE IF oracle.fails THEN Raised("llm invoke failed")
    ELSE IF oracle.json = "invalid" THEN LlmFallbackParsing(agents, oracle)
    ELSE IF oracle.json = "not_object" THEN Raised("object has no attribute get")
    ELSE IF ~oracle.conf_ok THEN Raised("could not convert string to float")
    ELSE IF LlmChosenAccepted(oracle.chosen_agent, agents)
         THEN Returned(RoutingDecision(
                  oracle.chosen_agent, LlmConfidence(oracle.confidence),
                  "LLM decision", "llm_based",
                  [i \in 1..Len(Prefix(oracle.alternatives, 2)) |->
                      <<oracle.alternatives[i], Rat(1, 2)>>], ""))
         ELSE LlmFallbackParsing(agents, oracle)

(***************************************************************************)
(* _hybrid_routing                                                         *)
(***************************************************************************)
strategy_weights ==
    << <<"capability_based", Rat(2, 5)>>, <<"performance_based", Rat(3, 10)>>,
       <<"workload_based", Rat(1, 5)>>, <<"keyword_based", Rat(1, 10)>> >>

HybridSub(ac, task, agents, strategy) ==
    CASE strategy = "capability_based" -> _capability_based_routing(ac, task, agents)
      [] strategy = "performance_based" -> _performance_based_routing(ac, task, agents)
      [] strategy = "workload_based" -> _workload_based_routing(ac, task, agents)
      [] strategy = "keyword_based" -> _keyword_based_routing(ac, task, agents)

\* what one sub-strategy's decision adds to the weighted score of agent_id
HybridContribution(r, weight, agent_id) ==
    IF r.raised # "" THEN RZero
    ELSE LET decision == r.value
             alts == decision.alternative_targets
         IN  IF decision.target = agent_id
             THEN RMul(decision.confidence, weight)
             ELSE IF \E i \in 1..Len(alts) : alts[i][1] = agent_id
                  THEN LET i == CHOOSE i \in 1..Len(alts) :
                                    /\ alts[i][1] = agent_id
                                    /\ \A j \in 1..(i - 1) : alts[j][1] # agent_id
                       IN  RMul(RMul(RDiv(alts[i][2], RInt(10)), weight), Rat(1, 2))
                  ELSE RZero

HybridConfidence(combined_confidence) == RMin(Rat(19, 20), combined_confidence)

\* the weighted score of agent_id over the decisions of the sub-strategies
RECURSIVE HybridWeighted(_, _, _)
HybridWeighted(sub, k, agent_id) ==
    IF k = 0 THEN RZero
    ELSE RAdd(HybridWeighted(sub, k - 1, agent_id),
              HybridContribution(sub[k], strategy_weights[k][2], agent_id))

\* the names of the sub-strategies that returned a decision, joined by ", "
RECURSIVE HybridContributing(_, _)
HybridContributing(sub, k) ==
    IF k = 0 THEN ""
    ELSE LET before == HybridContributing(sub, k - 1)
         IN  IF sub[k].raised # "" THEN before
             ELSE IF before = "" THEN strategy_weights[k][1]
             ELSE before \o ", " \o strategy_weights[k][1]

HybridSelect(keys, agent_weighted_scores, reasoning) ==
    Returned(RoutingDecision(keys[FirstMax(agent_weighted_scores)],
                             HybridConfidence(
                                 agent_weighted_scores[FirstMax(agent_weighted_scores)]),
                             reasoning, "hybrid", <<>>, ""))

HybridCombine(sub, keys) ==
    HybridSelect(keys,
                 [i \in 1..Len(keys) |-> HybridWeighted(sub, Len(sub), keys[i])],
                 "Hybrid decision combining: " \o HybridContributing(sub, Len(sub)))

_hybrid_routing(ac, task, agents) ==
    HybridCombine([k \in 1..Len(strategy_weights) |->
                      HybridSub(ac, task, agents, strategy_weights[k][1])],
                  Dedup(agents))

(***************************************************************************)
(* _round_robin_fallback and route_task.  The index attribute, created on  *)
(* first use with value 0, is modelled as a counter that starts at 0.      *)
(***************************************************************************)
\* a fallback that always takes the first candidate
FirstCandidateFallback(agents, index) == agents[1]
_round_robin_fallback(agents, index) == agents[(index % Len(agents)) + 1]

\* a fallback that reports an even chance
FallbackConfidenceHalf == Rat(1, 2)
FallbackConfidence == Rat(3, 10)

\* the list comprehension of route_task: the candidates that are registered
ValidAgents(ac, available_agents) == SelectSeqBy(available_agents, DOMAIN ac)

RunStrategy(ac, llm, task, valid_agents, strategy, ctx, oracle) ==
    CASE strategy = "keyword_based" -> _keyword_based_routing(ac, task, valid_agents)
      [] strategy = "llm_based" -> _llm_based_routing(llm, valid_agents, oracle)
      [] strategy = "rule_based" -> _rule_based_routing(ac, task, valid_agents, ctx)
      [] strategy = "capability_based" -> _capability_based_routing(ac, task, valid_agents)
      [] strategy = "workload_based" -> _workload_based_routing(ac, task, valid_agents)
      [] strategy = "performance_based" -> _performance_based_routing(ac, task, valid_agents)
      [] strategy = "hybrid" -> _hybrid_routing(ac, task, valid_agents)
      [] OTHER -> Raised("Unknown routing strategy")

\* the strategy route_task runs; "" stands for None (the default is used)
EffectiveStrategy(default_strategy, strategy_arg) ==
    IF strategy_arg = "" THEN default_strategy ELSE strategy_arg

\* the outcome of route_task, with the engine's history and index after it
\* an outcome that advances the index on every call
RouteResultCounting(out, hist, index, fallback) ==
    [out |-> out, history |-> hist, index |-> index + 1, fallback |-> fallback]
RouteResult(out, hist, index, fallback) ==
    [out |-> out, history |-> hist, index |-> index, fallback |-> fallback]

\* the tail of route_task: the decision is appended to the history and returned
RouteRecordFirst(decision, hist, index, fallback) ==
    RouteResult(Returned(decision), <<decision>> \o hist, index, fallback)
RouteRecord(decision, hist, index, fallback) ==
    RouteResult(Returned(decision), Append(hist, decision), index, fallback)

\* the except branch of route_task
FallbackDecision(valid_agents, index, strategy, msg) ==
    RoutingDecision(_round_robin_fallback(valid_agents, index), FallbackConfidence,
                    "Fallback routing due to error: " \o msg, strategy, <<>>, msg)

\* a try statement that moves the round-robin index on every call
RouteTryCounting(r, hist, index, valid_agents, strategy) ==
    IF r.raised = ""
    THEN RouteRecord(r.value, hist, index + 1, FALSE)
    ELSE RouteRecord(FallbackDecision(valid_agents, index, strategy, r.raised),
                     hist, index + 1, TRUE)

\* the try statement of route_task, r being the outcome of the strategy
RouteTry(r, hist, index, valid_agents, strategy) ==
    IF r.raised = ""
    THEN RouteRecord(r.value, hist, index, FALSE)
    ELSE RouteRecord(FallbackDecision(valid_agents, index, strategy, r.raised),
                     hist, index + 1, TRUE)

route_task(ac, hist, index, llm, default_strategy, task, available_agents, strategy_arg, ctx, oracle) ==
    IF available_agents = <<>>
    THEN RouteResult(Raised("No available agents for routing"), hist, index, FALSE)
    ELSE IF ValidAgents(ac, available_agents) = <<>>
    THEN RouteResult(Raised("No valid registered agents available for routing"),
                     hist, index, FALSE)
    ELSE RouteTry(RunStrategy(ac, llm, task, ValidAgents(ac, available_agents),
                              EffectiveStrategy(default_strategy, strategy_arg),
                              ctx, oracle),
                  hist, index, ValidAgents(ac, available_agents),
                  EffectiveStrategy(default_strategy, strategy_arg))

(***************************************************************************)
(* get_routing_statistics, as a function of the registry and the history.  *)
(* decision.strategy_used.value is defined for the members of the          *)
(* RoutingStrategy enum only: for any other value stored by the except     *)
(* branch of route_task the attribute access raises.                       *)
(***************************************************************************)
RECURSIVE SumConfidence(_)
SumConfidence(hist) ==
    IF hist = <<>> THEN RZero ELSE RAdd(Head(hist).confidence, SumConfidence(Tail(hist)))

\* the strategy_counts dict and the agent_utilization dict
strategy_counts(hist) ==
    [st \in {hist[i].strategy_used : i \in 1..Len(hist)} |->
        Cardinality({i \in 1..Len(hist) : hist[i].strategy_used = st})]

agent_utilization(ac, hist) ==
    [agent_id \in DOMAIN ac |->
        Cardinality({i \in 1..Len(hist) : hist[i].target = agent_id})]

get_routing_statistics(ac, hist) ==
    IF hist = <<>>
    THEN Returned([message |-> "No routing decisions recorded"])
    ELSE IF \E i \in 1..Len(hist) : hist[i].strategy_used \notin RoutingStrategy
    THEN Raised("'str' object has no attribute 'value'")
    ELSE Returned([total_decisions |-> Len(hist),
                   strategy_distribution |-> strategy_counts(hist),
                   average_confidence |-> RDiv(SumConfidence(hist), RInt(Len(hist))),
                   agent_utilization |-> agent_utilization(ac, hist)])

(***************************************************************************)
(* register_agent, update_agent_workload, update_agent_performance, as     *)
(* functions of the registry ac (agent_id -> AgentCapability).             *)
(***************************************************************************)
register_agent(ac, agent_id, cap) ==
    [x \in DOMAIN ac \cup {agent_id} |-> IF x = agent_id THEN cap ELSE ac[x]]

\* a workload left as computed, without the floor at zero
UnclampedWorkload(w) == w
\* max(0, w)
ClampWorkload(w) == IF w < 0 THEN 0 ELSE w

update_agent_workload(ac, agent_id, workload_change) ==
    IF agent_id \in DOMAIN ac
    THEN [ac EXCEPT ![agent_id].current_workload =
                        ClampWorkload(@ + workload_change)]
    ELSE ac

\* a success rate capped at 1 only
CappedSuccessRate(r) == RMin(ROne, r)
ClampSuccessRate(r) == RMax(Rat(1, 10), RMin(ROne, r))

update_agent_performance(ac, agent_id, response_time, success) ==
    IF agent_id \notin DOMAIN ac THEN ac
    ELSE [ac EXCEPT
            ![agent_id].average_response_time =
                IF @ = RZero THEN response_time
                ELSE RAdd(RMul(@, Rat(4, 5)), RMul(response_time, Rat(1, 5))),
            ![agent_id].success_rate =
                ClampSuccessRate(IF success THEN RAdd(RMul(@, Rat(9, 10)), Rat(1, 10))
                                 ELSE RMul(@, Rat(9, 10)))]

\* the strategy argument: a RoutingStrategy, None ("") or a value that is none
StrategyArgs == RoutingStrategy \cup {"", "round_robin"}

ResponseTimes == {RInt(30), RInt(90)}

\* elapsed times as the difference of two time.time() readings: the wall
\* clock can be set back between them
ObservedLatencies == {RInt(90), RInt(-30)}
WorkloadChanges == {-2, -1, 1, 2}

\* bounds of the model
MaxHistory == 1
MaxFallbacks == 3
MaxLoad == 2
MaxPerfUpdates == 1
MaxRateUpdates == 3

RECURSIVE SeqsUpTo(_, _)
SeqsUpTo(S, n) ==
    IF n = 0 THEN {<<>>}
    ELSE LET shorter == SeqsUpTo(S, n - 1)
         IN  shorter \cup {Append(q, x) : q \in shorter, x \in S}

\* candidate lists: as many entries as there are agents, repeats allowed
CandidateLists == SeqsUpTo(AgentIds, Cardinality(AgentIds))

\* the inputs of route_task: task, context and oracle vary where the strategy
\* reads them
RouteInput(task, strategy, ctx, oracle) ==
    [task |-> task, strategy |-> strategy, ctx |-> ctx, oracle |-> oracle]

RouteInputs ==
    {RouteInput(t, st, DefaultContext, NoOracle) :
        t \in Tasks, st \in {"keyword_based", "capability_based", "hybrid", ""}}
    \cup {RouteInput(AnyTask, st, DefaultContext, NoOracle) :
            st \in {"workload_based", "performance_based", "round_robin"}}
    \cup {RouteInput(t, "rule_based", c, NoOracle) : t \in Tasks, c \in Contexts}
    \cup {RouteInput(AnyTask, "llm_based", DefaultContext, o) : o \in OracleResponses}

\* the inputs of the round-robin runs: a strategy that fails and one that does not
FallbackInputs ==
    {RouteInput(AnyTask, st, DefaultContext, NoOracle) :
        st \in {"round_robin", "workload_based"}}

(***************************************************************************)
(* State.  An EnhancedSupervisorAgent with its routing engine, and a       *)
(* HierarchicalAgentTeam with its coordinator and plain supervisors.       *)
(***************************************************************************)
VARIABLES
    agent_capabilities,   \* engine: agent_id -> AgentCapability
    routing_history,      \* engine: the decisions returned, in order
    round_robin_index,    \* engine: _round_robin_index
    llm,                  \* engine and supervisor: whether an llm was given
    default_strategy,     \* engine: default_strategy
    workers,              \* supervisor: the worker objects (by name), in order
    worker_names,         \* supervisor: worker_names
    routing_strategy,     \* supervisor: routing_strategy
    task_history,         \* supervisor: task_history
    decision_history,     \* supervisor: decision_history
    run_pc,               \* position of the run call in progress ("idle" if none)
    run_local,            \* locals of the run call in progress
    teams,                \* hierarchy: teams, the keys in insertion order
    team_workers,         \* hierarchy: workers, the keys
    coordinator_teams,    \* coordinator: teams, the keys in insertion order
    team_names,           \* coordinator: team_names
    supervisors,          \* the SupervisorAgent object of each team name
    perf_updates,         \* number of update_agent_performance calls so far
    fallback_log,         \* history: <<valid_agents, target>> of each fallback
    route_returns,        \* history: the calls of route_task that returned a decision
    threads,              \* the run calls of concurrent threads: position and locals
    ret                   \* the last call of route_task or run, if it was the
                          \* last operation: its arguments and outcome

engine_vars == <<agent_capabilities, routing_history, round_robin_index, llm,
                 default_strategy>>
sup_vars == <<workers, worker_names, routing_strategy, task_history,
              decision_history, run_pc, run_local>>
hier_vars == <<teams, team_workers, coordinator_teams, team_names, supervisors>>
ghost_vars == <<perf_updates, fallback_log, route_returns>>
thread_vars == <<threads>>

vars == <<engine_vars, sup_vars, hier_vars, ghost_vars, thread_vars, ret>>

NoCall == [op |-> "", raised |-> ""]
NoLocals == [next_worker |-> ""]

\* the threads that call run on one supervisor, none of them in a call
Threads == {1, 2}
NoThreads ==
    [t \in Threads |-> [pc |-> "idle", next_worker |-> "", read |-> 0,
                        decision |-> <<>>, task |-> "", outcome |-> ""]]

\* the state after construction: a supervisor without workers, whose engine
\* has the supervisor's llm and routing strategy, and a hierarchy without teams
Constructed(strategies) ==
    /\ agent_capabilities = <<>>
    /\ routing_history = <<>>
    /\ round_robin_index = 0
    /\ llm \in BOOLEAN
    /\ default_strategy \in strategies
    /\ workers = <<>>
    /\ worker_names = <<>>
    /\ routing_strategy = default_strategy
    /\ task_history = <<>>
    /\ decision_history = <<>>
    /\ run_pc = "idle"
    /\ run_local = NoLocals
    /\ teams = <<>>
    /\ team_workers = {}
    /\ coordinator_teams = <<>>
    /\ team_names = <<>>
    /\ supervisors = <<>>
    /\ perf_updates = 0
    /\ fallback_log = <<>>
    /\ route_returns = 0
    /\ threads = NoThreads
    /\ ret = NoCall

Init == Constructed({"hybrid"})

(***************************************************************************)
(* The engine's operations.                                                *)
(***************************************************************************)
RegisterAgent(agent_id, cap) ==
    /\ agent_capabilities' = register_agent(agent_capabilities, agent_id, cap)
    /\ ret' = NoCall
    /\ UNCHANGED <<routing_history, round_robin_index, llm, default_strategy,
                   perf_updates, fallback_log, route_returns, sup_vars, hier_vars, thread_vars>>

UpdateWorkload(agent_id, workload_change) ==
    /\ agent_id \in DOMAIN agent_capabilities =>
           agent_capabilities[agent_id].current_workload + workload_change <= MaxLoad
    /\ agent_capabilities' =
           update_agent_workload(agent_capabilities, agent_id, workload_change)
    /\ ret' = [op |-> "update_agent_workload", raised |-> "", agent_id |-> agent_id,
               workload_change |-> workload_change,
               before |-> IF agent_id \in DOMAIN agent_capabilities
                          THEN agent_capabilities[agent_id].current_workload ELSE 0]
    /\ UNCHANGED <<routing_history, round_robin_index, llm, default_strategy,
                   perf_updates, fallback_log, route_returns, sup_vars, hier_vars, thread_vars>>

UpdatePerformance(agent_id, response_time, success) ==
    /\ agent_capabilities' =
           update_agent_performance(agent_capabilities, agent_id, response_time, success)
    /\ perf_updates' = perf_updates + 1
    /\ ret' = [op |-> "update_agent_performance", raised |-> "", agent_id |-> agent_id,
               success |-> success,
               before |-> IF agent_id \in DOMAIN agent_capabilities
                          THEN agent_capabilities[agent_id].success_rate ELSE ROne]
    /\ UNCHANGED <<routing_history, round_robin_index, llm, default_strategy,
                   fallback_log, route_returns, sup_vars, hier_vars, thread_vars>>

\* the task and the strategy argument of a call, where they are recorded
Unrecorded == [task |-> "", strategy |-> "", ctx |-> DefaultContext]

\* a route_task that charges the task to the target's workload
RouteStoresCharging(r, valid, available_agents, inp) ==
    /\ routing_history' = r.history
    /\ round_robin_index' = r.index
    /\ route_returns' = IF r.out.raised = "" THEN route_returns + 1
                        ELSE route_returns
    /\ fallback_log' = IF r.fallback
                       THEN Append(fallback_log, <<valid, r.out.value.target>>)
                       ELSE fallback_log
    /\ ret' = [op |-> "route_task", raised |-> r.out.raised,
               agents |-> available_agents, task |-> inp.task,
               strategy |-> inp.strategy, ctx |-> inp.ctx,
               decision |-> r.out.value]
    /\ agent_capabilities' =
           IF r.out.raised = ""
           THEN [agent_capabilities EXCEPT ![r.out.value.target].current_workload = @ + 1]
           ELSE agent_capabilities
    /\ UNCHANGED <<llm, default_strategy, perf_updates, sup_vars, hier_vars>>

\* the engine after a call of route_task with outcome r
RouteStores(r, valid, available_agents, inp) ==
    /\ routing_history' = r.history
    /\ round_robin_index' = r.index
    /\ route_returns' = IF r.out.raised = "" THEN route_returns + 1
                        ELSE route_returns
    /\ fallback_log' = IF r.fallback
                       THEN Append(fallback_log, <<valid, r.out.value.target>>)
                       ELSE fallback_log
    /\ ret' = [op |-> "route_task", raised |-> r.out.raised,
               agents |-> available_agents, task |-> inp.task,
               strategy |-> inp.strategy, ctx |-> inp.ctx,
               decision |-> r.out.value]
    /\ UNCHANGED <<agent_capabilities, llm, default_strategy, perf_updates,
                   sup_vars, hier_vars>>

RouteEffect(r, valid, available_agents, inp) ==
    /\ RouteStores(r, valid, available_agents, inp)
    /\ UNCHANGED thread_vars

RouteTask(available_agents, inp) ==
    RouteEffect(route_task(agent_capabilities, routing_history, round_robin_index,
                           llm, default_strategy, inp.task, available_agents,
                           inp.strategy, inp.ctx, inp.oracle),
                ValidAgents(agent_capabilities, available_agents), available_agents,
                Unrecorded)

\* the same call, the task and the strategy argument recorded with the outcome
RouteTaskOf(available_agents, inp) ==
    RouteEffect(route_task(agent_capabilities, routing_history, round_robin_index,
                           llm, default_strategy, inp.task, available_agents,
                           inp.strategy, inp.ctx, inp.oracle),
                ValidAgents(agent_capabilities, available_agents), available_agents,
                inp)

(***************************************************************************)
(* The engine called directly: the registry operations alone (RegSpec),    *)
(* registrations with route_task calls of every strategy (Spec), and       *)
(* registrations with runs of failing and succeeding calls (FallbackSpec). *)
(***************************************************************************)
Register ==
    \E id \in AgentIds : \E cap \in RegisterInputs(id) : RegisterAgent(id, cap)

RegNext ==
    \/ Register
    \/ \E id \in AgentIds : \E d \in WorkloadChanges : UpdateWorkload(id, d)
    \/ /\ perf_updates < MaxPerfUpdates
       /\ \E id \in AgentIds : \E rt \in ResponseTimes : \E ok \in BOOLEAN :
             UpdatePerformance(id, rt, ok)

RegSpec == Init /\ [][RegNext]_vars

\* C1: every registered agent's current_workload is at least 0 in every state
\* reached by register_agent, update_agent_workload (positive and negative
\* changes) and update_agent_performance calls.
C1_WorkloadNeverNegative ==
    \A id \in DOMAIN agent_capabilities :
        agent_capabilities[id].current_workload >= 0

\* a negative change larger than the workload was applied and the workload is 0
C1_Witness ==
    /\ ret.op = "update_agent_workload"
    /\ ret.agent_id \in DOMAIN agent_capabilities
    /\ ret.before + ret.workload_change < 0
    /\ agent_capabilities[ret.agent_id].current_workload = 0

\* the registry under performance updates: workers registered new or with a
\* history, loaded, and updated after tasks of any elapsed time
PerfNext ==
    \/ \E id \in AgentIds : \E cap \in RegisterInputs(id) \cup {SeasonedCapability(id)} :
          RegisterAgent(id, cap)
    \/ \E id \in AgentIds : UpdateWorkload(id, 1)
    \/ /\ perf_updates < MaxRateUpdates
       /\ \E id \in AgentIds : \E rt \in ObservedLatencies : \E ok \in BOOLEAN :
             UpdatePerformance(id, rt, ok)

PerfSpec == Init /\ [][PerfNext]_vars

\* 0.9 * rate + 0.1 on success, 0.9 * rate on failure
DecayedRate(rate, success) ==
    IF success THEN RAdd(RMul(Rat(9, 10), rate), Rat(1, 10)) ELSE RMul(Rat(9, 10), rate)

\* x brought into [lo, hi]
Clamped(x, lo, hi) == IF RLt(x, lo) THEN lo ELSE IF RLt(hi, x) THEN hi ELSE x

\* C12: update_agent_performance sets success_rate to 0.9 * rate + 0.1 on
\* success and to 0.9 * rate on failure, brought into [0.1, 1.0]: from 1.0 a
\* success leaves 1.0 and a failure gives 0.9, and after an update the
\* success_rate lies in [0.1, 1.0].
C12_SuccessRateUpdate ==
    (ret.op = "update_agent_performance" /\ ret.agent_id \in DOMAIN agent_capabilities) =>
        /\ agent_capabilities[ret.agent_id].success_rate =
               Clamped(DecayedRate(ret.before, ret.success), Rat(1, 10), ROne)
        /\ (ret.before = ROne /\ ret.success) =>
               agent_capabilities[ret.agent_id].success_rate = ROne
        /\ (ret.before = ROne /\ ~ret.success) =>
               agent_capabilities[ret.agent_id].success_rate = Rat(9, 10)
        /\ RLe(Rat(1, 10), agent_capabilities[ret.agent_id].success_rate)
        /\ RLe(agent_capabilities[ret.agent_id].success_rate, ROne)

\* the third update is a failure of a worker whose success_rate was 1.0
C12_Witness ==
    /\ ret.op = "update_agent_performance"
    /\ ret.agent_id \in DOMAIN agent_capabilities
    /\ perf_updates = 3
    /\ ret.before = ROne
    /\ ~ret.success
    /\ agent_capabilities[ret.agent_id].success_rate = Rat(9, 10)

\* C13: for every registered record, in every state reached by register_agent,
\* update_agent_workload and update_agent_performance calls, availability and
\* performance_score both lie in [0, 1].
C13_ScoresInUnitInterval ==
    \A id \in DOMAIN agent_capabilities :
        /\ RLe(RZero, availability(agent_capabilities[id]))
        /\ RLe(availability(agent_capabilities[id]), ROne)
        /\ RLe(RZero, performance_score(agent_capabilities[id]))
        /\ RLe(performance_score(agent_capabilities[id]), ROne)

Next ==
    \/ Register
    \/ /\ Len(routing_history) < MaxHistory
       /\ \E agents \in CandidateLists : \E inp \in RouteInputs : RouteTask(agents, inp)

Spec == Init /\ [][Next]_vars

\* C3: route_task called with a candidate list that holds at least one
\* registered id returns a decision and does not raise, whatever the strategy;
\* an unknown strategy value and llm_based without an llm end in the fallback;
\* a fallback decision has confidence exactly 0.3 and its reasoning is
\* "Fallback routing due to error: " followed by the original error.
C3_RouteNeverRaises ==
    (ret.op = "route_task" /\ ValidAgents(agent_capabilities, ret.agents) # <<>>) =>
        /\ ret.raised = ""
        /\ routing_history # <<>>
        /\ LET d == routing_history[Len(routing_history)]
           IN  /\ (d.strategy_used \notin RoutingStrategy
                     \/ (d.strategy_used = "llm_based" /\ ~llm)) => d.error # ""
               /\ d.error # "" =>
                      /\ d.confidence = <<3, 10>>
                      /\ d.reasoning = "Fallback routing due to error: " \o d.error

\* a strategy raised (a division by zero in capability_based) and the call
\* returned the fallback decision
C3_Witness ==
    /\ ret.op = "route_task"
    /\ ret.raised = ""
    /\ routing_history # <<>>
    /\ routing_history[Len(routing_history)].strategy_used = "capability_based"
    /\ routing_history[Len(routing_history)].error = "division by zero"

\* C4: the target of a decision returned by route_task is a member of the
\* candidate list passed in and is registered in the engine, for every
\* strategy, every oracle response and the fallback.
C4_TargetIsRegisteredCandidate ==
    (ret.op = "route_task" /\ ret.raised = "") =>
        /\ routing_history[Len(routing_history)].target \in SeqToSet(ret.agents)
        /\ routing_history[Len(routing_history)].target \in DOMAIN agent_capabilities

\* a call whose candidate list holds an unregistered id returned a decision of
\* the llm_based strategy
C4_Witness ==
    /\ ret.op = "route_task"
    /\ ret.raised = ""
    /\ \E i \in 1..Len(ret.agents) : ret.agents[i] \notin DOMAIN agent_capabilities
    /\ routing_history[Len(routing_history)].strategy_used = "llm_based"
    /\ routing_history[Len(routing_history)].error = ""

\* C5: the confidence of every decision returned by route_task lies in [0, 1].
C5_ConfidenceInUnitInterval ==
    \A i \in 1..Len(routing_history) :
        /\ RLe(RZero, routing_history[i].confidence)
        /\ RLe(routing_history[i].confidence, ROne)

\* C7: route_task with an empty candidate list raises the no-candidates error,
\* and with a non-empty list of unregistered ids the no-registered-candidates
\* error; a call that raises appends no decision to the history, runs no
\* fallback (the index and the fallback log stay) and leaves the registry alone.
C7_ErrorsLeaveEngineUnchanged ==
    [][ret'.op = "route_task" =>
         /\ ret'.agents = <<>> => ret'.raised = "No available agents for routing"
         /\ (ret'.agents # <<>> /\ ValidAgents(agent_capabilities, ret'.agents) = <<>>) =>
                ret'.raised = "No valid registered agents available for routing"
         /\ ret'.raised # "" =>
                UNCHANGED <<routing_history, round_robin_index, fallback_log,
                            agent_capabilities>>]_vars

\* a call with a non-empty list of unregistered ids raised
C7_Witness ==
    /\ ret.op = "route_task"
    /\ ret.agents # <<>>
    /\ ret.raised = "No valid registered agents available for routing"
    /\ routing_history = <<>>

\* C26: route_task changes no record of the registry: capabilities,
\* current_workload, average_response_time and success_rate of every agent are
\* after the call what they were before it, for every strategy and for the
\* fallback; of the engine's state only the routing history and the
\* round-robin index change.
C26_RouteLeavesRegistryAlone ==
    [][ret'.op = "route_task" =>
         /\ agent_capabilities' = agent_capabilities
         /\ UNCHANGED <<llm, default_strategy>>]_vars

\* a call for a loaded researcher and a writer ended in the fallback: the
\* history and the index moved, the researcher's record is the one registered
C26_Witness ==
    /\ ret.op = "route_task"
    /\ ret.raised = ""
    /\ ret.decision.error # ""
    /\ Len(routing_history) = 1
    /\ round_robin_index = 1
    /\ DOMAIN agent_capabilities = AgentIds
    /\ agent_capabilities["researcher"].current_workload = OtherProfile("researcher")[2]

\* the decisions cap and perf name the same target, and the decision made
\* names another
AgreementOverruled(cap, perf, decision) ==
    /\ cap.raised = ""
    /\ perf.raised = ""
    /\ cap.value.target = perf.value.target
    /\ decision.target # cap.value.target

\* route_task calls of the strategies that score the task, for both tasks
TaskInputs ==
    {RouteInput(t, st, DefaultContext, NoOracle) :
        t \in Tasks, st \in {"capability_based", "hybrid"}}

TaskNext ==
    \/ Register
    \/ /\ Len(routing_history) < MaxHistory
       /\ \E agents \in CandidateLists : \E inp \in TaskInputs : RouteTaskOf(agents, inp)

TaskSpec == Init /\ [][TaskNext]_vars

\* C11: when the capability-based and the performance-based strategy return
\* the same target for a task, a candidate list and a registry, the hybrid
\* strategy's target for them is that target.
C11_AgreementDecidesHybrid ==
    (/\ ret.op = "route_task"
     /\ ret.raised = ""
     /\ EffectiveStrategy(default_strategy, ret.strategy) = "hybrid") =>
        ~AgreementOverruled(
            _capability_based_routing(agent_capabilities, ret.task,
                                      ValidAgents(agent_capabilities, ret.agents)),
            _performance_based_routing(agent_capabilities, ret.task,
                                       ValidAgents(agent_capabilities, ret.agents)),
            routing_history[Len(routing_history)])

NoRepeats(q) == Cardinality(SeqToSet(q)) = Len(q)

\* the worker the task is meant for
ExpectedWorker(task) ==
    CASE task = "research AI trends" -> "researcher"
      [] task = "write a blog post" -> "writer"

\* C14: with researcher (capabilities research, web_search) and writer
\* (capability writing) registered as add_worker registers them, the
\* capability-based strategy routes "research AI trends" to researcher and
\* "write a blog post" to writer, in whichever order the two are listed.
C14_CapabilityRoutesByTask ==
    (/\ ret.op = "route_task"
     /\ ret.raised = ""
     /\ EffectiveStrategy(default_strategy, ret.strategy) = "capability_based"
     /\ DOMAIN agent_capabilities = AgentIds
     /\ \A id \in AgentIds : agent_capabilities[id] = WorkerCapability(id)
     /\ Len(ret.agents) = 2
     /\ NoRepeats(ret.agents)) =>
        routing_history[Len(routing_history)].target = ExpectedWorker(ret.task)

\* C17: in every decision route_task returned, whatever the strategy, the
\* candidate list (ids may repeat) and the llm's answer (it may list the
\* chosen agent among its alternatives), alternative_targets does not hold
\* the decision's target.
C17_AlternativesExcludeTarget ==
    \A i \in 1..Len(routing_history) :
        \A k \in 1..Len(routing_history[i].alternative_targets) :
            routing_history[i].alternative_targets[k][1] # routing_history[i].target

(***************************************************************************)
(* The engine's history: every operation of the engine, with route_task     *)
(* calls that return a decision, fall back, or raise.                        *)
(***************************************************************************)
MaxDecisions == 2

GetRoutingStatistics ==
    /\ ret' = [op |-> "get_routing_statistics",
               raised |-> get_routing_statistics(agent_capabilities, routing_history).raised,
               value |-> get_routing_statistics(agent_capabilities, routing_history).value]
    /\ UNCHANGED <<engine_vars, sup_vars, hier_vars, thread_vars, ghost_vars>>

\* strategies that score the task, one that reads the registry only, and a
\* value that is no member of RoutingStrategy
HistoryInputs ==
    {RouteInput(AnyTask, st, DefaultContext, NoOracle) :
        st \in {"keyword_based", "workload_based", "round_robin"}}

\* candidate lists: empty, one id, and both ids
HistoryLists == {<<>>, <<"writer">>, <<"researcher", "writer">>}

HistNext ==
    \/ \E id \in AgentIds : RegisterAgent(id, WorkerCapability(id))
    \/ UpdateWorkload("researcher", 1)
    \/ /\ perf_updates < MaxPerfUpdates
       /\ UpdatePerformance("researcher", RInt(30), FALSE)
    \/ /\ route_returns < MaxDecisions
       /\ \E agents \in HistoryLists : \E inp \in HistoryInputs : RouteTask(agents, inp)
    \/ GetRoutingStatistics

HistSpec == Init /\ [][HistNext]_vars

\* C19: every route_task call that returns a decision appends exactly that
\* decision as the last element of routing_history and leaves the earlier
\* entries as they were; no other operation of the engine changes the
\* history; so the length of the history is the number of route_task calls
\* that have returned a decision.
C19_HistoryAppendOnly ==
    /\ [](Len(routing_history) = route_returns)
    /\ [][IF ret'.op = "route_task" /\ ret'.raised = ""
          THEN routing_history' = Append(routing_history, ret'.decision)
          ELSE routing_history' = routing_history]_vars

\* two calls returned different decisions, the second one a fallback
C19_Witness ==
    /\ ret.op = "route_task"
    /\ ret.raised = ""
    /\ Len(routing_history) = 2
    /\ routing_history[2] = ret.decision
    /\ routing_history[2].error # ""
    /\ routing_history[1].error = ""

\* the sum of the counts of a dict of counts
RECURSIVE SumCounts(_, _)
SumCounts(counts, keys) ==
    IF keys = {} THEN 0
    ELSE LET k == CHOOSE x \in keys : TRUE
         IN  counts[k] + SumCounts(counts, keys \ {k})

\* C20: after any sequence of route_task calls, none included,
\* get_routing_statistics returns total_decisions equal to the number of
\* decisions in the history, strategy counts that sum to total_decisions and
\* agent utilization counts that sum to total_decisions.
C20_StatisticsTotals ==
    ret.op = "get_routing_statistics" =>
        /\ ret.raised = ""
        /\ "total_decisions" \in DOMAIN ret.value
        /\ ret.value.total_decisions = Len(routing_history)
        /\ SumCounts(ret.value.strategy_distribution,
                     DOMAIN ret.value.strategy_distribution) = Len(routing_history)
        /\ SumCounts(ret.value.agent_utilization,
                     DOMAIN ret.value.agent_utilization) = Len(routing_history)

FallbackNext ==
    \/ \E id \in AgentIds : RegisterAgent(id, WorkerCapability(id))
    \/ /\ Len(routing_history) < MaxFallbacks
       /\ \E agents \in CandidateLists : \E inp \in FallbackInputs :
             RouteTask(agents, inp)

FallbackSpec == Init /\ [][FallbackNext]_vars

\* the entry after the first occurrence of x in the list q, wrapping at the end
ListSuccessor(q, x) ==
    q[((CHOOSE i \in 1..Len(q) : q[i] = x /\ \A j \in 1..(i - 1) : q[j] # x) % Len(q)) + 1]

\* C6 as stated: each fallback target is the list successor of the previous
\* fallback target for the same list of registered candidates, whatever
\* fallbacks for other lists happened in between.
C6_SuccessorOfPreviousForSameList ==
    \A i, j \in 1..Len(fallback_log) :
        (/\ i < j
         /\ NoRepeats(fallback_log[i][1])
         /\ fallback_log[i][1] = fallback_log[j][1]
         /\ \A k \in (i + 1)..(j - 1) : fallback_log[k][1] # fallback_log[i][1]) =>
            fallback_log[j][2] = ListSuccessor(fallback_log[i][1], fallback_log[i][2])

\* C6 amended: when two fallbacks with the same list of n distinct registered
\* candidates follow one another with no other fallback in between, the
\* second target is the list successor of the first; n fallbacks in a row
\* with that list choose every candidate exactly once.
C6_ConsecutiveFallbacksCycle ==
    /\ \A i \in 1..(Len(fallback_log) - 1) :
           (NoRepeats(fallback_log[i][1]) /\ fallback_log[i][1] = fallback_log[i + 1][1]) =>
               fallback_log[i + 1][2] = ListSuccessor(fallback_log[i][1], fallback_log[i][2])
    /\ \A i \in 1..Len(fallback_log) :
           LET q == fallback_log[i][1]
               run == i..(i + Len(q) - 1)
           IN  (/\ NoRepeats(q)
                /\ i + Len(q) - 1 <= Len(fallback_log)
                /\ \A k \in run : fallback_log[k][1] = q) =>
                   /\ {fallback_log[k][2] : k \in run} = SeqToSet(q)
                   /\ \A k, l \in run : k # l => fallback_log[k][2] # fallback_log[l][2]

\* C28: the round-robin index is one counter of the engine that starts at 0,
\* goes up by one on each fallback and is left alone by route_task calls whose
\* strategy succeeds or which raise an input error: the k-th fallback, counted
\* from 0, returns element k mod n of the list of the n registered candidates
\* of that call.
C28_FallbackIndexCountsFallbacks ==
    /\ round_robin_index = Len(fallback_log)
    /\ \A k \in 1..Len(fallback_log) :
           fallback_log[k][2] =
               fallback_log[k][1][((k - 1) % Len(fallback_log[k][1])) + 1]

\* two fallbacks with a successful call between them; the second fallback,
\* for another list than the first, took the second of its two candidates
C28_Witness ==
    /\ ret.op = "route_task"
    /\ ret.raised = ""
    /\ Len(fallback_log) = 2
    /\ Len(routing_history) = 3
    /\ routing_history[2].error = ""
    /\ fallback_log[1][1] # fallback_log[2][1]
    /\ Len(fallback_log[2][1]) = 2
    /\ fallback_log[2][2] = fallback_log[2][1][2]
    /\ round_robin_index = 2

\* three fallbacks in a row with the same list of two candidates: the targets
\* alternate
C6_Witness ==
    /\ Len(fallback_log) = 3
    /\ Len(fallback_log[1][1]) = 2
    /\ NoRepeats(fallback_log[1][1])
    /\ fallback_log[2][1] = fallback_log[1][1]
    /\ fallback_log[3][1] = fallback_log[1][1]
    /\ fallback_log[2][2] # fallback_log[1][2]
    /\ fallback_log[3][2] = fallback_log[1][2]

(***************************************************************************)
(* EnhancedSupervisorAgent.  A worker object is known by its name; what    *)
(* its run method does in one call is an input of the call:                *)
(*   "ok"          returns a result without an error field                 *)
(*   "error"       returns a result with an error field                    *)
(*   "raises"      raises an Exception                                     *)
(*   "interrupted" raises a BaseException that is no Exception (the call   *)
(*                 is cancelled: KeyboardInterrupt, CancelledError)        *)
(***************************************************************************)
WorkerOutcomes == {"ok", "error", "raises", "interrupted"}

\* the strategies a supervisor is constructed with
SupervisorStrategies == {"hybrid", "llm_based"}

SupervisorOracles ==
    {NoOracle,
     Oracle(FALSE, "chosen_agent writer alternatives writer researcher", "object",
            "writer", Rat(3, 2), TRUE, <<"writer", "researcher">>)}

\* bounds of the supervisor runs
MaxWorkers == 2
MaxRuns == 1
MaxRunLoad == 1

\* the task and the elapsed time of the supervisor runs
RunTasks == {"write a blog post"}
RunResponseTimes == {RInt(30)}

SupInit == Constructed(SupervisorStrategies)

EnhancedSupervisorDecision(d, task) ==
    [next_worker |-> d.target, confidence |-> d.confidence,
     reasoning |-> d.reasoning, task_description |-> task,
     alternative_workers |->
         [i \in 1..Len(d.alternative_targets) |-> d.alternative_targets[i][1]],
     strategy_used |-> d.strategy_used]

\* get_worker: whether a worker of that name is found
get_worker(ws, worker_name) == worker_name \in SeqToSet(ws)

add_worker_names(names, worker) == Append(names, worker)

remove_worker_names(ws, worker_name) == SelectSeqBy(ws, SeqToSet(ws) \ {worker_name})

\* a try statement that also gives the workload back
ExecuteRegistryReleasing(ac, w, outcome, response_time) ==
    CASE outcome = "ok" ->
            update_agent_workload(update_agent_performance(ac, w, response_time, TRUE), w, -1)
      [] outcome = "error" ->
            update_agent_workload(update_agent_performance(ac, w, response_time, FALSE), w, -1)
      [] outcome = "raises" ->
            update_agent_workload(update_agent_performance(ac, w, response_time, FALSE), w, -1)
      [] outcome = "interrupted" -> ac
\* the registry after the try statement of run, without the finally clause
ExecuteRegistry(ac, w, outcome, response_time) ==
    CASE outcome = "ok" -> update_agent_performance(ac, w, response_time, TRUE)
      [] outcome = "error" -> update_agent_performance(ac, w, response_time, FALSE)
      [] outcome = "raises" -> update_agent_performance(ac, w, response_time, FALSE)
      [] outcome = "interrupted" -> ac

\* a run that skips the finally clause
RunRegistryNoCleanup(ac, w, outcome, response_time) ==
    ExecuteRegistry(update_agent_workload(ac, w, 1), w, outcome, response_time)
\* the registry after run dispatched to worker w: workload + 1, the try
\* statement, and workload - 1 in the finally clause
RunRegistry(ac, w, outcome, response_time) ==
    update_agent_workload(
        ExecuteRegistry(update_agent_workload(ac, w, 1), w, outcome, response_time),
        w, -1)

TaskRecord(task, decision, response_time, success) ==
    [input |-> task, worker_used |-> decision.next_worker,
     response_time |-> response_time, success |-> success,
     confidence |-> decision.confidence, strategy |-> decision.strategy_used]

\* task_history after the try statement of run
ExecuteTaskHistory(th, task, decision, outcome, response_time) ==
    IF outcome \in {"ok", "error"}
    THEN Append(th, TaskRecord(task, decision, response_time, outcome = "ok"))
    ELSE th

\* what the caller of run gets: an exception, or a result dict of which the
\* error field and the worker used are kept
RunOutcome(raised, error, worker_used, outcome, before) ==
    [op |-> "run", raised |-> raised, error |-> error, worker_used |-> worker_used,
     outcome |-> outcome, before |-> before]

ExecuteOutcome(w, outcome, before) ==
    CASE outcome = "interrupted" -> RunOutcome("KeyboardInterrupt", "", w, outcome, before)
      [] outcome = "raises" ->
            RunOutcome("", "Worker execution error: worker failed", w, outcome, before)
      [] OTHER -> RunOutcome("", "", w, outcome, before)

NotFoundOutcome(w) ==
    RunOutcome("", "Worker '" \o w \o "' not found", w, "", 0)

(***************************************************************************)
(* The supervisor's operations.  AddWorker, RemoveWorker and Run are whole *)
(* calls; RunDecide, RunDispatch, RunExecute and RunCleanup further down   *)
(* are the statements of one run call, for callers on several threads.     *)
(***************************************************************************)
AddWorker(worker) ==
    /\ Len(workers) < MaxWorkers
    /\ workers' = Append(workers, worker)
    /\ worker_names' = add_worker_names(worker_names, worker)
    /\ agent_capabilities' =
           register_agent(agent_capabilities, worker, WorkerCapability(worker))
    /\ ret' = NoCall
    /\ UNCHANGED <<routing_history, round_robin_index, llm, default_strategy,
                   routing_strategy, task_history, decision_history, run_pc,
                   run_local, hier_vars, thread_vars, ghost_vars>>

\* a remove_worker that leaves worker_names as it was
RemoveWorkerKeepingNames(worker_name) ==
    /\ workers' = remove_worker_names(workers, worker_name)
    /\ ret' = NoCall
    /\ UNCHANGED <<engine_vars, worker_names, routing_strategy, task_history,
                   decision_history, run_pc, run_local, hier_vars, thread_vars,
                   ghost_vars>>

RemoveWorker(worker_name) ==
    /\ workers' = remove_worker_names(workers, worker_name)
    /\ worker_names' = remove_worker_names(workers, worker_name)
    /\ ret' = NoCall
    /\ UNCHANGED <<engine_vars, routing_strategy, task_history, decision_history,
                   run_pc, run_local, hier_vars, thread_vars, ghost_vars>>

\* run raises before anything is changed
RunRaises(msg) ==
    /\ ret' = RunOutcome(msg, "", "", "", 0)
    /\ UNCHANGED <<engine_vars, sup_vars, hier_vars, thread_vars, ghost_vars>>

\* run after decide_worker returned decision, r being the outcome of route_task
RunDecided(r, decision, task, outcome, response_time) ==
    /\ routing_history' = r.history
    /\ round_robin_index' = r.index
    /\ route_returns' = route_returns + 1
    /\ fallback_log' =
           IF r.fallback
           THEN Append(fallback_log, <<ValidAgents(agent_capabilities, worker_names),
                                       decision.next_worker>>)
           ELSE fallback_log
    /\ decision_history' = Append(decision_history, decision)
    /\ IF get_worker(workers, decision.next_worker)
       THEN /\ agent_capabilities' =
                   RunRegistry(agent_capabilities, decision.next_worker, outcome,
                               response_time)
            /\ task_history' =
                   ExecuteTaskHistory(task_history, task, decision, outcome, response_time)
            /\ perf_updates' = IF outcome = "interrupted" THEN perf_updates
                               ELSE perf_updates + 1
            /\ ret' = ExecuteOutcome(
                          decision.next_worker, outcome,
                          agent_capabilities[decision.next_worker].current_workload)
       ELSE /\ ret' = NotFoundOutcome(decision.next_worker)
            /\ UNCHANGED <<agent_capabilities, task_history, perf_updates>>
    /\ UNCHANGED <<llm, default_strategy, workers, worker_names, routing_strategy,
                   run_pc, run_local, hier_vars, thread_vars>>

\* run after route_task, called by decide_worker, ended with r
RunRouted(r, task, outcome, response_time) ==
    IF r.out.raised # ""
    THEN RunRaises(r.out.raised)
    ELSE RunDecided(r, EnhancedSupervisorDecision(r.out.value, task), task, outcome,
                    response_time)

Run(task, ctx, oracle, outcome, response_time) ==
    /\ run_pc = "idle"
    /\ IF workers = <<>>
       THEN RunRaises("No workers available for supervisor to delegate to")
       ELSE RunRouted(route_task(agent_capabilities, routing_history,
                                 round_robin_index, llm, default_strategy, task,
                                 worker_names, routing_strategy, ctx, oracle),
                      task, outcome, response_time)

SupNext ==
    \/ \E w \in AgentIds : AddWorker(w)
    \/ \E w \in AgentIds : RemoveWorker(w)
    \/ \E id \in DOMAIN agent_capabilities :
          /\ agent_capabilities[id].current_workload < MaxRunLoad
          /\ UpdateWorkload(id, 1)
    \/ /\ Len(decision_history) < MaxRuns
       /\ \E t \in RunTasks : \E o \in SupervisorOracles : \E outcome \in WorkerOutcomes :
          \E rt \in RunResponseTimes : Run(t, DefaultContext, o, outcome, rt)

SupSpec == SupInit /\ [][SupNext]_vars

\* the runs of a supervisor whose workers are added and loaded but never
\* removed: remove_worker leaves the engine's records alone
RunNext ==
    \/ \E w \in AgentIds : AddWorker(w)
    \/ \E id \in DOMAIN agent_capabilities :
          /\ agent_capabilities[id].current_workload < MaxRunLoad
          /\ UpdateWorkload(id, 1)
    \/ /\ Len(decision_history) < MaxRuns
       /\ \E t \in RunTasks : \E o \in SupervisorOracles : \E outcome \in WorkerOutcomes :
          \E rt \in RunResponseTimes : Run(t, DefaultContext, o, outcome, rt)

RunSpec == SupInit /\ [][RunNext]_vars

(***************************************************************************)
(* run, statement by statement, with add_worker and remove_worker calls of *)
(* other threads in between:                                               *)
(*   RunDecide    decision = self.decide_worker(...)                       *)
(*   RunDispatch  worker = self.get_worker(...); the not-found return, or  *)
(*                update_agent_workload(next_worker, 1)                    *)
(*   RunExecute   the try statement with its except clause                 *)
(*   RunCleanup   the finally clause, and the return or the exception      *)
(***************************************************************************)
RunLocals(decision, task, before, outcome) ==
    [next_worker |-> decision.next_worker, decision |-> decision, task |-> task,
     before |-> before, outcome |-> outcome]

DecideDone(r, decision, task) ==
    /\ routing_history' = r.history
    /\ round_robin_index' = r.index
    /\ route_returns' = route_returns + 1
    /\ fallback_log' =
           IF r.fallback
           THEN Append(fallback_log, <<ValidAgents(agent_capabilities, worker_names),
                                       decision.next_worker>>)
           ELSE fallback_log
    /\ decision_history' = Append(decision_history, decision)
    /\ run_pc' = "dispatch"
    /\ run_local' = RunLocals(decision, task, 0, "")
    /\ ret' = NoCall
    /\ UNCHANGED <<agent_capabilities, llm, default_strategy, workers, worker_names,
                   routing_strategy, task_history, perf_updates, hier_vars, thread_vars>>

DecideRouted(r, task) ==
    IF r.out.raised # ""
    THEN RunRaises(r.out.raised)
    ELSE DecideDone(r, EnhancedSupervisorDecision(r.out.value, task), task)

RunDecide(task, ctx, oracle) ==
    /\ run_pc = "idle"
    /\ IF workers = <<>>
       THEN RunRaises("No workers available for supervisor to delegate to")
       ELSE DecideRouted(route_task(agent_capabilities, routing_history,
                                    round_robin_index, llm, default_strategy, task,
                                    worker_names, routing_strategy, ctx, oracle),
                         task)

\* a dispatch that counts the task before looking the worker up
DispatchRegistryCounting(ac, found, w) == update_agent_workload(ac, w, 1)
\* the registry after the lookup of the chosen worker
DispatchRegistry(ac, found, w) ==
    IF found THEN update_agent_workload(ac, w, 1) ELSE ac

RunDispatch ==
    /\ run_pc = "dispatch"
    /\ agent_capabilities' =
           DispatchRegistry(agent_capabilities,
                            get_worker(workers, run_local.next_worker),
                            run_local.next_worker)
    /\ IF get_worker(workers, run_local.next_worker)
       THEN /\ run_pc' = "execute"
            /\ run_local' =
                   RunLocals(run_local.decision, run_local.task,
                             agent_capabilities[run_local.next_worker].current_workload,
                             "")
            /\ ret' = NoCall
       ELSE /\ run_pc' = "idle"
            /\ run_local' = NoLocals
            /\ ret' = NotFoundOutcome(run_local.next_worker)
    /\ UNCHANGED <<routing_history, round_robin_index, llm, default_strategy,
                   workers, worker_names, routing_strategy, task_history,
                   decision_history, hier_vars, thread_vars, ghost_vars>>

RunExecute(outcome, response_time) ==
    /\ run_pc = "execute"
    /\ agent_capabilities' =
           ExecuteRegistry(agent_capabilities, run_local.next_worker, outcome,
                           response_time)
    /\ task_history' =
           ExecuteTaskHistory(task_history, run_local.task, run_local.decision,
                              outcome, response_time)
    /\ perf_updates' = IF outcome = "interrupted" THEN perf_updates
                       ELSE perf_updates + 1
    /\ run_pc' = "cleanup"
    /\ run_local' = RunLocals(run_local.decision, run_local.task, run_local.before,
                              outcome)
    /\ ret' = NoCall
    /\ UNCHANGED <<routing_history, round_robin_index, llm, default_strategy,
                   workers, worker_names, routing_strategy, decision_history,
                   hier_vars, thread_vars, fallback_log, route_returns>>

RunCleanup ==
    /\ run_pc = "cleanup"
    /\ agent_capabilities' =
           update_agent_workload(agent_capabilities, run_local.next_worker, -1)
    /\ run_pc' = "idle"
    /\ run_local' = NoLocals
    /\ ret' = ExecuteOutcome(run_local.next_worker, run_local.outcome, run_local.before)
    /\ UNCHANGED <<routing_history, round_robin_index, llm, default_strategy,
                   workers, worker_names, routing_strategy, task_history,
                   decision_history, hier_vars, thread_vars, ghost_vars>>

ConcNext ==
    \/ \E w \in AgentIds : AddWorker(w)
    \/ \E w \in AgentIds : RemoveWorker(w)
    \/ /\ Len(decision_history) < MaxRuns
       /\ \E t \in RunTasks : RunDecide(t, DefaultContext, NoOracle)
    \/ RunDispatch
    \/ \E outcome \in WorkerOutcomes : \E rt \in RunResponseTimes :
          RunExecute(outcome, rt)
    \/ RunCleanup

ConcSpec == SupInit /\ [][ConcNext]_vars

(***************************************************************************)
(* One run at a time, statement by statement, the try statement in two     *)
(* steps: RunInvoke is worker.run(...) ending with an outcome, RunRecord    *)
(* the statements after it (or the except clause).  Workers are added and  *)
(* loaded between runs only.                                               *)
(***************************************************************************)
RunInvoke(outcome, response_time) ==
    /\ run_pc = "execute"
    /\ run_pc' = "record"
    /\ run_local' = RunLocals(run_local.decision, run_local.task, run_local.before,
                              outcome) @@ [response_time |-> response_time]
    /\ ret' = NoCall
    /\ UNCHANGED <<engine_vars, workers, worker_names, routing_strategy, task_history,
                   decision_history, hier_vars, thread_vars, ghost_vars>>

\* a record step that applies the update to every registered worker
RunRecordUpdatingAll ==
    /\ run_pc = "record"
    /\ agent_capabilities' =
           [id \in DOMAIN agent_capabilities |->
               ExecuteRegistry(agent_capabilities, id, run_local.outcome,
                               run_local.response_time)[id]]
    /\ task_history' =
           ExecuteTaskHistory(task_history, run_local.task, run_local.decision,
                              run_local.outcome, run_local.response_time)
    /\ perf_updates' = IF run_local.outcome = "interrupted" THEN perf_updates
                       ELSE perf_updates + 1
    /\ run_pc' = "cleanup"
    /\ run_local' = RunLocals(run_local.decision, run_local.task, run_local.before,
                              run_local.outcome)
    /\ ret' = NoCall
    /\ UNCHANGED <<routing_history, round_robin_index, llm, default_strategy,
                   workers, worker_names, routing_strategy, decision_history,
                   hier_vars, thread_vars, fallback_log, route_returns>>

RunRecord ==
    /\ run_pc = "record"
    /\ agent_capabilities' =
           ExecuteRegistry(agent_capabilities, run_local.next_worker, run_local.outcome,
                           run_local.response_time)
    /\ task_history' =
           ExecuteTaskHistory(task_history, run_local.task, run_local.decision,
                              run_local.outcome, run_local.response_time)
    /\ perf_updates' = IF run_local.outcome = "interrupted" THEN perf_updates
                       ELSE perf_updates + 1
    /\ run_pc' = "cleanup"
    /\ run_local' = RunLocals(run_local.decision, run_local.task, run_local.before,
                              run_local.outcome)
    /\ ret' = NoCall
    /\ UNCHANGED <<routing_history, round_robin_index, llm, default_strategy,
                   workers, worker_names, routing_strategy, decision_history,
                   hier_vars, thread_vars, fallback_log, route_returns>>

StepNext ==
    \/ /\ run_pc = "idle"
       /\ \E w \in AgentIds : AddWorker(w)
    \/ /\ run_pc = "idle"
       /\ \E id \in DOMAIN agent_capabilities :
             /\ agent_capabilities[id].current_workload < MaxRunLoad
             /\ UpdateWorkload(id, 1)
    \/ /\ Len(decision_history) < MaxRuns
       /\ \E t \in RunTasks : RunDecide(t, DefaultContext, NoOracle)
    \/ RunDispatch
    \/ \E outcome \in WorkerOutcomes : \E rt \in RunResponseTimes : RunInvoke(outcome, rt)
    \/ RunRecord
    \/ RunCleanup

StepSpec == SupInit /\ [][StepNext]_vars

\* the registry differs from ac in the workload of w only, which is cw
OnlyWorkloadSet(ac, w, cw) ==
    agent_capabilities' = [ac EXCEPT ![w].current_workload = cw]

C22_ExecutedRunIsRecorded ==
    [][IF run_pc = "record" /\ run_local.outcome \in {"ok", "error", "raises"}
       THEN /\ Len(task_history') = Len(task_history) + 1
            /\ SubSeq(task_history', 1, Len(task_history)) = task_history
            /\ task_history'[Len(task_history')].worker_used = run_local.next_worker
       ELSE run_pc # "record" => UNCHANGED task_history]_vars

\* what the performance updates write: the records without their workloads
PerformanceFields(ac) ==
    [id \in DOMAIN ac |-> <<ac[id].average_response_time, ac[id].success_rate>>]

\* the steps of a run other than the record step make no performance update
OtherStepsLeavePerformance ==
    (run_pc \in {"dispatch", "execute", "cleanup"} \/ run_pc' = "dispatch") =>
        /\ perf_updates' = perf_updates
        /\ PerformanceFields(agent_capabilities') = PerformanceFields(agent_capabilities)

\* the record step of a run applies one update, for the chosen worker, with
\* success exactly when the worker returned a result without an error
RecordAppliesOneUpdate ==
    /\ perf_updates' = perf_updates + 1
    /\ agent_capabilities' =
           update_agent_performance(agent_capabilities, run_local.next_worker,
                                    run_local.response_time, run_local.outcome = "ok")

\* C30 as stated: each run that invokes a worker applies exactly one
\* performance update, to the chosen worker's record and to no other: with
\* success true exactly when the worker returned a result without an error
\* field, and false when the result has an error field or the worker raised.
C30_InvokedRunUpdatesOnce ==
    [][/\ OtherStepsLeavePerformance
       /\ run_pc = "record" => RecordAppliesOneUpdate]_vars

\* C30 amended: each run whose worker returns or raises an Exception applies
\* exactly one performance update, to the chosen worker's record and to no
\* other, with success true exactly when the worker returned a result without
\* an error; a run whose worker call is cancelled (a BaseException that is no
\* Exception) applies none and leaves every record's performance alone.
C30_EndedRunUpdatesOnce ==
    [][/\ OtherStepsLeavePerformance
       /\ run_pc = "record" =>
              IF run_local.outcome = "interrupted"
              THEN /\ perf_updates' = perf_updates
                   /\ agent_capabilities' = agent_capabilities
              ELSE RecordAppliesOneUpdate]_vars

\* a run on one of two workers whose worker returned an error: one update,
\* the chosen worker's success rate went down and the other's did not
C30_Witness ==
    /\ ret.op = "run"
    /\ ret.outcome = "error"
    /\ perf_updates = 1
    /\ DOMAIN agent_capabilities = AgentIds
    /\ agent_capabilities[ret.worker_used].success_rate = Rat(9, 10)
    /\ \A id \in AgentIds \ {ret.worker_used} :
           /\ agent_capabilities[id].success_rate = ROne
           /\ agent_capabilities[id].average_response_time = RZero

\* C8: when the worker chosen by the routing decision is not among the
\* supervisor's workers at the lookup, run returns a result with an error
\* field, and neither the decision nor the lookup changes a record of the
\* registry; nothing is added to the task history.
C8_MissingWorkerLeavesRegistry ==
    [][/\ (run_pc = "idle" /\ run_pc' = "dispatch") => UNCHANGED agent_capabilities
       /\ (/\ run_pc = "dispatch"
           /\ run_pc' # "dispatch"
           /\ ~get_worker(workers, run_local.next_worker)) =>
              /\ ret'.op = "run"
              /\ ret'.raised = ""
              /\ ret'.error = "Worker '" \o run_local.next_worker \o "' not found"
              /\ run_pc' = "idle"
              /\ UNCHANGED <<agent_capabilities, task_history, perf_updates>>]_vars

\* a run returned the not-found result for a worker that is still registered
C8_Witness ==
    /\ ret.op = "run"
    /\ ret.raised = ""
    /\ ret.error = "Worker 'researcher' not found"
    /\ "researcher" \in DOMAIN agent_capabilities
    /\ ~get_worker(workers, "researcher")
    /\ run_pc = "idle"

\* C2 as stated: when the worker run dispatched to raises or is cancelled, the
\* worker's current_workload after run equals its value before run, and run
\* returns a result with an error field instead of letting the exception out.
C2_FailedRunRestoresAndReturns ==
    (ret.op = "run" /\ ret.outcome \in {"raises", "interrupted"}) =>
        /\ agent_capabilities[ret.worker_used].current_workload = ret.before
        /\ ret.raised = ""
        /\ ret.error # ""

\* C2 amended: in both cases the worker's current_workload after run equals
\* its value before run; when the worker raises an Exception, run returns a
\* result with an error field; when the call is cancelled (a BaseException
\* that is no Exception), the exception leaves run.
C2_FailedRunRestoresWorkload ==
    (ret.op = "run" /\ ret.outcome \in {"raises", "interrupted"}) =>
        /\ agent_capabilities[ret.worker_used].current_workload = ret.before
        /\ ret.outcome = "raises" => (ret.raised = "" /\ ret.error # "")
        /\ ret.outcome = "interrupted" => ret.raised # ""

\* a run on a worker with workload 1 ended with the worker raising
C2_Witness ==
    /\ ret.op = "run"
    /\ ret.outcome = "raises"
    /\ ret.before = 1
    /\ ret.error # ""
    /\ agent_capabilities[ret.worker_used].current_workload = 1

(***************************************************************************)
(* decide_worker called directly, with every strategy argument, on a       *)
(* supervisor whose workers are added and removed.                         *)
(***************************************************************************)
DecideRaises(msg) ==
    /\ ret' = [op |-> "decide_worker", raised |-> msg]
    /\ UNCHANGED <<engine_vars, sup_vars, hier_vars, thread_vars, ghost_vars>>

\* decide_worker after route_task ended with r
DecideStores(r, task) ==
    IF r.out.raised # ""
    THEN DecideRaises(r.out.raised)
    ELSE /\ routing_history' = r.history
         /\ round_robin_index' = r.index
         /\ route_returns' = route_returns + 1
         /\ fallback_log' =
                IF r.fallback
                THEN Append(fallback_log, <<ValidAgents(agent_capabilities, worker_names),
                                            r.out.value.target>>)
                ELSE fallback_log
         /\ decision_history' =
                Append(decision_history, EnhancedSupervisorDecision(r.out.value, task))
         /\ ret' = [op |-> "decide_worker", raised |-> ""]
         /\ UNCHANGED <<agent_capabilities, llm, default_strategy, workers, worker_names,
                        routing_strategy, task_history, run_pc, run_local, perf_updates,
                        hier_vars, thread_vars>>

DecideWorker(inp) ==
    IF workers = <<>>
    THEN DecideRaises("No workers available for supervisor to delegate to")
    ELSE DecideStores(route_task(agent_capabilities, routing_history, round_robin_index,
                                 llm, default_strategy, inp.task, worker_names,
                                 IF inp.strategy = "" THEN routing_strategy
                                 ELSE inp.strategy,
                                 inp.ctx, inp.oracle),
                      inp.task)

\* the calls of decide_worker: every strategy argument, none ("") included,
\* and for llm_based an llm that fails and one that names the writer
DecideInputs ==
    {RouteInput(AnyTask, st, DefaultContext, NoOracle) :
        st \in {"", "keyword_based", "rule_based", "capability_based",
                "workload_based", "performance_based", "hybrid", "round_robin"}}
    \cup {RouteInput(AnyTask, "llm_based", DefaultContext, o) : o \in SupervisorOracles}

DecideNext ==
    \/ \E w \in AgentIds : AddWorker(w)
    \/ \E w \in AgentIds : RemoveWorker(w)
    \/ /\ Len(decision_history) < MaxRuns
       /\ \E inp \in DecideInputs : DecideWorker(inp)

DecideSpec == SupInit /\ [][DecideNext]_vars

\* C29: after remove_worker(name) and until a worker of that name is added
\* again, no decision of the supervisor has name as its target, whatever the
\* strategy and in the fallback too: the target of every decision is one of
\* the supervisor's workers at the time of the decision.
C29_TargetIsCurrentWorker ==
    [][decision_history' # decision_history =>
         /\ Len(decision_history') = Len(decision_history) + 1
         /\ decision_history'[Len(decision_history')].next_worker \in SeqToSet(workers)
         /\ workers' = workers]_vars

\* the writer was removed and is still registered in the engine; the llm named
\* the writer and the decision went to the researcher
C29_Witness ==
    /\ ret.op = "decide_worker"
    /\ ret.raised = ""
    /\ workers = <<"researcher">>
    /\ "writer" \in DOMAIN agent_capabilities
    /\ decision_history # <<>>
    /\ decision_history[Len(decision_history)].strategy_used = "llm_based"
    /\ decision_history[Len(decision_history)].next_worker = "researcher"
    /\ routing_history[Len(routing_history)].error = ""
    /\ routing_history[Len(routing_history)].confidence = Rat(3, 5)

\* C10: the ids registered in the supervisor's routing engine are the names of
\* the supervisor's current workers; a removed worker has no record.
C10_RegisteredIdsAreWorkerNames ==
    DOMAIN agent_capabilities = SeqToSet(worker_names)

(***************************************************************************)
(* run called by several threads on one supervisor.  The engine takes no   *)
(* lock: each statement of update_agent_workload and of                    *)
(* update_agent_performance reads the record and writes it back, and       *)
(* another thread can run between the read and the write.  A thread t goes *)
(* through                                                                 *)
(*   idle        decision = self.decide_worker(...)                        *)
(*   dispatch    get_worker; current_workload += 1: the read               *)
(*   inc_write   ... the write;   inc_clamp, inc_store: max(0, ...)        *)
(*   execute     worker.run; update_agent_performance: the reads           *)
(*   perf_write  ... the writes, and the task record                       *)
(*   dec_read, dec_write, dec_clamp, dec_store: the finally clause         *)
(*   done                                                                  *)
(* The workers are added before the first thread starts.                   *)
(***************************************************************************)
ThreadFrame ==
    UNCHANGED <<llm, default_strategy, workers, worker_names, routing_strategy,
                run_pc, run_local, hier_vars>>

ThreadRaises(t, msg) ==
    /\ threads' = [threads EXCEPT ![t].pc = "done"]
    /\ ret' = [op |-> "run", raised |-> msg]
    /\ UNCHANGED <<agent_capabilities, routing_history, round_robin_index,
                   task_history, decision_history, ghost_vars>>
    /\ ThreadFrame

ThreadDecided(t, r, task) ==
    IF r.out.raised # "" THEN ThreadRaises(t, r.out.raised)
    ELSE /\ routing_history' = r.history
         /\ round_robin_index' = r.index
         /\ route_returns' = route_returns + 1
         /\ fallback_log' =
                IF r.fallback
                THEN Append(fallback_log,
                            <<ValidAgents(agent_capabilities, worker_names),
                              r.out.value.target>>)
                ELSE fallback_log
         /\ decision_history' =
                Append(decision_history, EnhancedSupervisorDecision(r.out.value, task))
         /\ threads' = [threads EXCEPT ![t].pc = "dispatch",
                                       ![t].next_worker = r.out.value.target,
                                       ![t].decision =
                                           EnhancedSupervisorDecision(r.out.value, task),
                                       ![t].task = task]
         /\ ret' = NoCall
         /\ UNCHANGED <<agent_capabilities, task_history, perf_updates>>
         /\ ThreadFrame

ThreadDecide(t, task, ctx, oracle) ==
    /\ threads[t].pc = "idle"
    /\ IF workers = <<>>
       THEN ThreadRaises(t, "No workers available for supervisor to delegate to")
       ELSE ThreadDecided(t, route_task(agent_capabilities, routing_history,
                                        round_robin_index, llm, default_strategy, task,
                                        worker_names, routing_strategy, ctx, oracle),
                          task)

\* a step of thread t that changes its own position and locals only
ThreadMoves(t, pc, read) ==
    /\ threads' = [threads EXCEPT ![t].pc = pc, ![t].read = read]
    /\ ret' = NoCall
    /\ UNCHANGED <<agent_capabilities, routing_history, round_robin_index,
                   task_history, decision_history, ghost_vars>>
    /\ ThreadFrame

\* a step of thread t that stores the workload w in the record of its worker
ThreadStores(t, pc, w) ==
    /\ agent_capabilities' =
           [agent_capabilities EXCEPT ![threads[t].next_worker].current_workload = w]
    /\ threads' = [threads EXCEPT ![t].pc = pc]
    /\ ret' = IF pc = "done"
              THEN ExecuteOutcome(threads[t].next_worker, threads[t].outcome, 0)
              ELSE NoCall
    /\ UNCHANGED <<routing_history, round_robin_index, task_history,
                   decision_history, ghost_vars>>
    /\ ThreadFrame

ThreadDispatch(t) ==
    /\ threads[t].pc = "dispatch"
    /\ IF get_worker(workers, threads[t].next_worker)
       THEN ThreadMoves(t, "inc_write",
                        agent_capabilities[threads[t].next_worker].current_workload)
       ELSE /\ threads' = [threads EXCEPT ![t].pc = "done"]
            /\ ret' = NotFoundOutcome(threads[t].next_worker)
            /\ UNCHANGED <<agent_capabilities, routing_history, round_robin_index,
                           task_history, decision_history, ghost_vars>>
            /\ ThreadFrame

\* current_workload += workload_change, the write
ThreadWorkloadWrite(t) ==
    \/ threads[t].pc = "inc_write" /\ ThreadStores(t, "inc_clamp", threads[t].read + 1)
    \/ threads[t].pc = "dec_write" /\ ThreadStores(t, "dec_clamp", threads[t].read - 1)

\* current_workload = max(0, current_workload), the read and the write
ThreadClampRead(t) ==
    /\ threads[t].pc \in {"inc_clamp", "dec_clamp"}
    /\ ThreadMoves(t, IF threads[t].pc = "inc_clamp" THEN "inc_store" ELSE "dec_store",
                   agent_capabilities[threads[t].next_worker].current_workload)

ThreadClampWrite(t) ==
    \/ threads[t].pc = "inc_store"
          /\ ThreadStores(t, "execute", ClampWorkload(threads[t].read))
    \/ threads[t].pc = "dec_store" /\ ThreadStores(t, "done", ClampWorkload(threads[t].read))

\* worker.run ends with the outcome; update_agent_performance reads the record
ThreadExecute(t, outcome, response_time) ==
    /\ threads[t].pc = "execute"
    /\ threads' =
           [threads EXCEPT
               ![t].pc = IF outcome = "interrupted" THEN "dec_read" ELSE "perf_write",
               ![t].outcome = outcome,
               ![t].read =
                   [average_response_time |->
                        agent_capabilities[threads[t].next_worker].average_response_time,
                    success_rate |->
                        agent_capabilities[threads[t].next_worker].success_rate,
                    response_time |-> response_time]]
    /\ ret' = NoCall
    /\ UNCHANGED <<agent_capabilities, routing_history, round_robin_index,
                   task_history, decision_history, ghost_vars>>
    /\ ThreadFrame

\* the record of w as the thread read it
SeenRecord(ac, w, read) ==
    [ac EXCEPT ![w].average_response_time = read.average_response_time,
               ![w].success_rate = read.success_rate]

\* the values computed from the record read are stored in the record of w
StorePerformance(ac, w, computed) ==
    [ac EXCEPT ![w].average_response_time = computed.average_response_time,
               ![w].success_rate = computed.success_rate]

ThreadPerfWrite(t) ==
    /\ threads[t].pc = "perf_write"
    /\ agent_capabilities' =
           StorePerformance(agent_capabilities, threads[t].next_worker,
                            ExecuteRegistry(SeenRecord(agent_capabilities,
                                                       threads[t].next_worker,
                                                       threads[t].read),
                                            threads[t].next_worker, threads[t].outcome,
                                            threads[t].read.response_time)
                                [threads[t].next_worker])
    /\ task_history' =
           ExecuteTaskHistory(task_history, threads[t].task, threads[t].decision,
                              threads[t].outcome, threads[t].read.response_time)
    /\ perf_updates' = perf_updates + 1
    /\ threads' = [threads EXCEPT ![t].pc = "dec_read"]
    /\ ret' = NoCall
    /\ UNCHANGED <<routing_history, round_robin_index, decision_history,
                   fallback_log, route_returns>>
    /\ ThreadFrame

\* the finally clause: update_agent_workload(next_worker, -1), the read
ThreadCleanupRead(t) ==
    /\ threads[t].pc = "dec_read"
    /\ ThreadMoves(t, "dec_write",
                   agent_capabilities[threads[t].next_worker].current_workload)

RaceNext ==
    \/ /\ \A t \in Threads : threads[t].pc = "idle"
       /\ Len(workers) < MaxWorkers
       /\ \E w \in AgentIds : AddWorker(w)
    \/ \E t \in Threads : \E task \in RunTasks : ThreadDecide(t, task, DefaultContext, NoOracle)
    \/ \E t \in Threads : ThreadDispatch(t)
    \/ \E t \in Threads : ThreadWorkloadWrite(t)
    \/ \E t \in Threads : ThreadClampRead(t)
    \/ \E t \in Threads : ThreadClampWrite(t)
    \/ \E t \in Threads : \E outcome \in WorkerOutcomes : \E rt \in RunResponseTimes :
          ThreadExecute(t, outcome, rt)
    \/ \E t \in Threads : ThreadPerfWrite(t)
    \/ \E t \in Threads : ThreadCleanupRead(t)

RaceSpec == Init /\ [][RaceNext]_vars

\* C15: when several executions of run on one supervisor are in progress on
\* the same worker at the same time, no workload update is lost: once all of
\* them have finished, the worker's current_workload is what it was before
\* the first of them started (0, as add_worker registers it).
C15_NoUpdateLost ==
    (\A t \in Threads : threads[t].pc = "done") =>
        \A id \in DOMAIN agent_capabilities :
            agent_capabilities[id].current_workload = 0

(***************************************************************************)
(* run called by several threads, each call of update_agent_workload taken *)
(* as one step (the caller holds a lock around it, or the interpreter does *)
(* not switch threads inside it).  Workers are added before the first      *)
(* thread starts and removed at any time; remove_worker leaves the         *)
(* engine's records alone.                                                 *)
(***************************************************************************)
\* a finally clause that gives nothing back
CleanupRegistrySkipped(ac, w) == ac
\* the registry after the finally clause of run
CleanupRegistry(ac, w) == update_agent_workload(ac, w, -1)

\* get_worker and update_agent_workload(next_worker, 1), or the not-found return
ThreadDispatchAtomic(t) ==
    /\ threads[t].pc = "dispatch"
    /\ agent_capabilities' =
           DispatchRegistry(agent_capabilities, get_worker(workers, threads[t].next_worker),
                            threads[t].next_worker)
    /\ threads' = [threads EXCEPT
                      ![t].pc = IF get_worker(workers, threads[t].next_worker)
                                THEN "execute" ELSE "done"]
    /\ ret' = IF get_worker(workers, threads[t].next_worker) THEN NoCall
              ELSE NotFoundOutcome(threads[t].next_worker)
    /\ UNCHANGED <<routing_history, round_robin_index, task_history,
                   decision_history, ghost_vars>>
    /\ ThreadFrame

\* the finally clause, and the return or the exception
ThreadCleanupAtomic(t) ==
    /\ threads[t].pc = "dec_read"
    /\ agent_capabilities' = CleanupRegistry(agent_capabilities, threads[t].next_worker)
    /\ threads' = [threads EXCEPT ![t].pc = "done"]
    /\ ret' = ExecuteOutcome(threads[t].next_worker, threads[t].outcome, 0)
    /\ UNCHANGED <<routing_history, round_robin_index, task_history,
                   decision_history, ghost_vars>>
    /\ ThreadFrame

\* remove_worker called while runs are in progress
ThreadRemoveWorker(worker_name) ==
    /\ worker_name \in SeqToSet(workers)
    /\ RemoveWorker(worker_name)

AtomicNext ==
    \/ /\ \A t \in Threads : threads[t].pc = "idle"
       /\ Len(workers) < MaxWorkers
       /\ \E w \in AgentIds \ DOMAIN agent_capabilities : AddWorker(w)
    \/ \E w \in AgentIds : ThreadRemoveWorker(w)
    \/ \E t \in Threads : \E task \in RunTasks : ThreadDecide(t, task, DefaultContext, NoOracle)
    \/ \E t \in Threads : ThreadDispatchAtomic(t)
    \/ \E t \in Threads : \E outcome \in WorkerOutcomes : \E rt \in RunResponseTimes :
          ThreadExecute(t, outcome, rt)
    \/ \E t \in Threads : ThreadPerfWrite(t)
    \/ \E t \in Threads : ThreadCleanupAtomic(t)

AtomicSpec == Init /\ [][AtomicNext]_vars

\* the runs on worker id that have counted their task and not given it back
Holding(id) ==
    {t \in Threads : /\ threads[t].pc \in {"execute", "perf_write", "dec_read"}
                     /\ threads[t].next_worker = id}

\* C27: when only the supervisor's runs change workloads, the current_workload
\* of every registered worker is the workload it was registered with plus the
\* number of runs on that worker that have made their increment and not yet
\* their decrement, in every state of every interleaving of runs whose
\* increments and decrements are single steps; with no such run it is the
\* registered workload.
C27_WorkloadCountsRunsInProgress ==
    \A id \in DOMAIN agent_capabilities :
        agent_capabilities[id].current_workload =
            WorkerCapability(id).current_workload + Cardinality(Holding(id))

\* two runs hold the same worker at once, one of them after its worker failed
C27_Witness ==
    \E id \in DOMAIN agent_capabilities :
        /\ Cardinality(Holding(id)) = 2
        /\ agent_capabilities[id].current_workload = 2
        /\ \E t \in Holding(id) : threads[t].pc = "dec_read" /\ threads[t].outcome = "raises"

(***************************************************************************)
(* route_task with the llm_based strategy, the call of llm.invoke made       *)
(* visible: a thread that reached llm.invoke waits there (pc "invoke")       *)
(* until the llm returns or raises; _llm_based_routing passes no timeout     *)
(* and starts no timer, so nothing else ends the wait.  The list of valid    *)
(* agents is the one computed before the call.                               *)
(***************************************************************************)
LlmInput(oracle) == RouteInput(AnyTask, "llm_based", DefaultContext, oracle)

\* the calls of route_task in progress
InFlight == {t \in Threads : threads[t].pc # "idle"}

\* route_task up to llm.invoke; a call that does not reach it returns at once
LlmRouteCall(t, available_agents) ==
    /\ threads[t].pc = "idle"
    /\ IF llm /\ ValidAgents(agent_capabilities, available_agents) # <<>>
       THEN /\ threads' =
                   [threads EXCEPT
                       ![t].pc = "invoke",
                       ![t].read =
                           [agents |-> available_agents,
                            valid |-> ValidAgents(agent_capabilities, available_agents)]]
            /\ ret' = NoCall
            /\ UNCHANGED <<engine_vars, sup_vars, hier_vars, ghost_vars>>
       ELSE RouteTask(available_agents, LlmInput(NoOracle))

\* llm.invoke returns a response or raises
LlmResponds(t, oracle) ==
    /\ threads[t].pc = "invoke"
    /\ threads' = [threads EXCEPT ![t].pc = "responded", ![t].outcome = oracle]
    /\ ret' = NoCall
    /\ UNCHANGED <<engine_vars, sup_vars, hier_vars, ghost_vars>>

\* the rest of _llm_based_routing and of route_task
LlmRouteReturn(t) ==
    /\ threads[t].pc = "responded"
    /\ RouteStores(RouteTry(_llm_based_routing(llm, threads[t].read.valid,
                                               threads[t].outcome),
                            routing_history, round_robin_index,
                            threads[t].read.valid, "llm_based"),
                   threads[t].read.valid, threads[t].read.agents,
                   Unrecorded)
    /\ threads' = [threads EXCEPT ![t] = NoThreads[t]]

LlmNext ==
    \/ Register
    \/ /\ Len(routing_history) + Cardinality(InFlight) < MaxHistory
       /\ \E t \in Threads : \E agents \in CandidateLists : LlmRouteCall(t, agents)
    \/ \E t \in Threads : \E oracle \in OracleResponses : LlmResponds(t, oracle)
    \/ \E t \in Threads : LlmRouteReturn(t)

\* the thread in route_task runs on once llm.invoke has returned or raised;
\* nothing makes the llm answer
LlmSpec ==
    Init /\ [][LlmNext]_vars /\ WF_vars(\E t \in Threads : LlmRouteReturn(t))

\* C16: a route_task call with the llm_based strategy that has reached the
\* llm eventually returns, whether or not the llm ever answers.
C16_LlmRouteReturns ==
    \A t \in Threads : (threads[t].pc = "invoke") ~> (threads[t].pc = "idle")

\* the response is the structured form: a JSON object whose confidence is a
\* number
Structured(oracle) == oracle.json = "object" /\ oracle.conf_ok

\* C24: with the llm_based strategy, whenever the llm answers and its response
\* cannot be parsed as the structured form, the decision's target is a
\* candidate whose id occurs in the response text and its confidence is
\* exactly 0.6; the decision comes from the round-robin fallback only when the
\* call of the llm itself fails.
C24_UnparsedResponseNamesCandidate ==
    [][\A t \in Threads :
          (threads[t].pc = "responded" /\ threads'[t].pc = "idle") =>
              /\ (~threads[t].outcome.fails /\ ~Structured(threads[t].outcome)) =>
                     /\ ret'.raised = ""
                     /\ ret'.decision.strategy_used = "llm_based"
                     /\ ret'.decision.confidence = Rat(3, 5)
                     /\ ret'.decision.target \in SeqToSet(threads[t].read.valid)
                     /\ MentionsTable[threads[t].outcome.text][ret'.decision.target]
              /\ fallback_log' # fallback_log => threads[t].outcome.fails]_vars

(***************************************************************************)
(* HierarchicalAgentTeam, TeamCoordinator and SupervisorAgent.  A python   *)
(* dict is the sequence of its keys in insertion order; the SupervisorAgent*)
(* object of a team is [llm, workers], shared by the hierarchy's and the   *)
(* coordinator's dict.  The coordinator always has an llm.  What llm.invoke*)
(* answers and what the worker's run does are inputs of a call.            *)
(***************************************************************************)
TeamNames == {"research", "writing"}

LlmReplies ==
    {[fails |-> TRUE, text |-> ""],
     [fails |-> FALSE, text |-> "This needs the writing experts to draft a report"],
     [fails |-> FALSE, text |-> "No preference"]}

ReplyTexts == {x.text : x \in LlmReplies}

HierarchyWorkerOutcomes == {"ok", "error", "raises"}

\* bounds of the hierarchy
MaxTeamWorkers == 1
MaxTeamNames == 2

SupervisorAgent(has_llm, ws) == [llm |-> has_llm, workers |-> ws]

\* the supervisors a caller hands to add_team
TeamSupervisors ==
    {SupervisorAgent(l, ws) : l \in BOOLEAN, ws \in SeqsUpTo(AgentIds, MaxTeamWorkers)}

\* d[k] = v and del d[k] on the keys of a dict
DictSet(keys, k) == IF k \in SeqToSet(keys) THEN keys ELSE Append(keys, k)
DictDel(keys, k) == SelectSeqBy(keys, SeqToSet(keys) \ {k})

team_keyword_mappings ==
    << <<"research", <<"research", "search", "find", "information", "web", "lookup", "investigate">> >>,
       <<"development", <<"code", "program", "develop", "debug", "python", "function", "script", "build">> >>,
       <<"support", <<"help", "support", "customer", "issue", "problem", "assist", "troubleshoot">> >>,
       <<"writing", <<"write", "document", "report", "content", "article", "text", "create">> >>,
       <<"analysis", <<"analyze", "analyze", "data", "chart", "graph", "statistics", "examine">> >> >>

worker_keyword_mappings ==
    << <<"research", <<"research", "search", "find", "information", "web", "lookup">> >>,
       <<"coding", <<"code", "program", "develop", "debug", "python", "function", "script">> >>,
       <<"support", <<"help", "support", "customer", "issue", "problem", "assist">> >>,
       <<"writing", <<"write", "document", "report", "content", "article", "text">> >>,
       <<"analysis", <<"analyze", "analyze", "data", "chart", "graph", "statistics">> >> >>

\* the score loop of _choose_team_by_keywords and _choose_worker_by_keywords
\* for one name
NameKeywordScore(mappings, name, input_text, reasoning) ==
    SumSeq([k \in 1..Len(mappings) |->
              IF Contains(Lower(name), mappings[k][1])
              THEN Cardinality({i \in 1..Len(mappings[k][2]) :
                                   \/ Contains(Lower(input_text), mappings[k][2][i])
                                   \/ Contains(Lower(reasoning), mappings[k][2][i])})
              ELSE 0])

TeamScoreTable ==
    [t \in Tasks |-> [x \in ReplyTexts |-> [n \in TeamNames |->
        NameKeywordScore(team_keyword_mappings, n, t, x)]]]

WorkerScoreTable ==
    [t \in Tasks |-> [x \in ReplyTexts |-> [n \in AgentIds |->
        NameKeywordScore(worker_keyword_mappings, n, t, x)]]]

\* max(scores.items(), key=score): the best key if its score is positive,
\* else the first entry of the list
BestOrFirst(keys, scores, first) ==
    IF scores[FirstMax([i \in 1..Len(keys) |-> RInt(scores[i])])] > 0
    THEN keys[FirstMax([i \in 1..Len(keys) |-> RInt(scores[i])])]
    ELSE first

_choose_team_by_keywords(keys, names, input_text, reasoning) ==
    IF keys # <<>>
    THEN BestOrFirst(keys,
                     [i \in 1..Len(keys) |-> TeamScoreTable[input_text][reasoning][keys[i]]],
                     names[1])
    ELSE IF names # <<>> THEN names[1] ELSE "none"

decide_team(keys, names, input_text, reply) ==
    IF keys = <<>>
    THEN Raised("No teams available for coordinator to delegate to")
    ELSE IF reply.fails
    THEN Returned(IF names # <<>> THEN names[1] ELSE "none")
    ELSE Returned(_choose_team_by_keywords(keys, names, input_text, reply.text))

_choose_worker_by_keywords(ws, input_text, reasoning) ==
    IF ws # <<>>
    THEN BestOrFirst(Dedup(ws),
                     [i \in 1..Len(Dedup(ws)) |->
                         WorkerScoreTable[input_text][reasoning][Dedup(ws)[i]]],
                     ws[1])
    ELSE "none"

decide_worker(sup, input_text, reply) ==
    IF ~sup.llm THEN Raised("No LLM configured for supervisor agent")
    ELSE IF sup.workers = <<>>
    THEN Raised("No workers available for supervisor to delegate to")
    ELSE IF reply.fails THEN Returned(sup.workers[1])
    ELSE Returned(_choose_worker_by_keywords(sup.workers, input_text, reply.text))

\* what the caller of HierarchicalAgentTeam.run gets: an exception, or a
\* result dict of which are kept its error field, the error field of the
\* team_response nested in it, the team and the worker used, and what the
\* worker did (its own error result is nested under the team_response)
HierarchyOutcome(raised, error, team_error, team, worker, outcome) ==
    [op |-> "hierarchy_run", raised |-> raised, error |-> error,
     team_error |-> team_error, team_used |-> team, worker_used |-> worker,
     outcome |-> outcome]

\* a worker whose exception is turned into an error result
WorkerRunCaught(team, worker, outcome) ==
    HierarchyOutcome("", IF outcome = "raises" THEN "worker failed" ELSE "", "",
                     team, worker, outcome)
\* WorkerAgent.run seen from HierarchicalAgentTeam.run
WorkerRun(team, worker, outcome) ==
    IF outcome = "raises"
    THEN HierarchyOutcome("No LLM configured for worker agent", "", "", team, worker,
                          outcome)
    ELSE HierarchyOutcome("", "", "", team, worker, outcome)

\* SupervisorAgent.run after decide_worker ended with d
SupervisorDispatch(sup, team, d, outcome) ==
    IF d.raised # "" THEN HierarchyOutcome(d.raised, "", "", team, "", outcome)
    ELSE IF ~get_worker(sup.workers, d.value)
    THEN HierarchyOutcome("", "", "Worker '" \o d.value \o "' not found", team,
                          d.value, outcome)
    ELSE WorkerRun(team, d.value, outcome)

SupervisorRun(sup, team, input_text, reply, outcome) ==
    SupervisorDispatch(sup, team, decide_worker(sup, input_text, reply), outcome)

\* TeamCoordinator.run after decide_team ended with d
CoordinatorDispatch(sups, keys, d, input_text, sup_reply, outcome) ==
    IF d.raised # "" THEN HierarchyOutcome(d.raised, "", "", "", "", outcome)
    ELSE IF d.value \notin SeqToSet(keys)
    THEN HierarchyOutcome("", "Team '" \o d.value \o "' not found", "", d.value, "",
                          outcome)
    ELSE SupervisorRun(sups[d.value], d.value, input_text, sup_reply, outcome)

CoordinatorRun(sups, keys, names, input_text, reply, sup_reply, outcome) ==
    CoordinatorDispatch(sups, keys, decide_team(keys, names, input_text, reply),
                        input_text, sup_reply, outcome)

hierarchy_run(hteams, sups, keys, names, input_text, reply, sup_reply, outcome) ==
    IF hteams = <<>>
    THEN HierarchyOutcome("No teams available", "", "", "", "", outcome)
    ELSE CoordinatorRun(sups, keys, names, input_text, reply, sup_reply, outcome)

\* self.teams[team_name] = supervisor on the team objects
SetSupervisor(sups, team_name, sup) ==
    [n \in DOMAIN sups \cup {team_name} |-> IF n = team_name THEN sup ELSE sups[n]]

DelSupervisor(sups, team_name) == [n \in DOMAIN sups \ {team_name} |-> sups[n]]

\* SupervisorAgent.add_worker and SupervisorAgent.remove_worker
supervisor_add_worker(sup, worker) ==
    [sup EXCEPT !.workers = Append(sup.workers, worker)]

supervisor_remove_worker(sup, worker_name) ==
    [sup EXCEPT !.workers = SelectSeqBy(sup.workers, SeqToSet(sup.workers) \ {worker_name})]

\* HierarchicalAgentTeam.add_worker: a team that does not exist yet is made
\* with the coordinator's llm and handed to the coordinator
EnsureTeam(sups, team_name) ==
    IF team_name \in DOMAIN sups THEN sups
    ELSE SetSupervisor(sups, team_name, SupervisorAgent(TRUE, <<>>))

\* TeamCoordinator.remove_team: team_names is rebuilt from the keys of the
\* coordinator's teams when the team was known, and left alone otherwise
StaleTeamNames(coord_teams, names, team_name) == names
RemainingTeamNames(coord_teams, names, team_name) ==
    IF team_name \in SeqToSet(coord_teams) THEN DictDel(coord_teams, team_name) ELSE names

HierarchyAddWorker(worker, team_name) ==
    /\ team_name \in DOMAIN supervisors =>
           Len(supervisors[team_name].workers) < MaxTeamWorkers
    /\ team_name \notin DOMAIN supervisors => Len(team_names) < MaxTeamNames
    /\ teams' = DictSet(teams, team_name)
    /\ coordinator_teams' = DictSet(coordinator_teams, team_name)
    /\ team_names' = IF team_name \in SeqToSet(teams) THEN team_names
                     ELSE Append(team_names, team_name)
    /\ supervisors' = SetSupervisor(supervisors, team_name,
                           supervisor_add_worker(EnsureTeam(supervisors, team_name)[team_name],
                                                 worker))
    /\ team_workers' = team_workers \cup {worker}
    /\ ret' = [op |-> "hierarchy_add_worker", raised |-> "", team_name |-> team_name,
               created |-> team_name \notin SeqToSet(teams)]
    /\ UNCHANGED <<engine_vars, sup_vars, thread_vars, ghost_vars>>

HierarchyAddTeam(team_name, supervisor) ==
    /\ Len(team_names) < MaxTeamNames
    /\ teams' = DictSet(teams, team_name)
    /\ coordinator_teams' = DictSet(coordinator_teams, team_name)
    /\ team_names' = Append(team_names, team_name)
    /\ supervisors' = SetSupervisor(supervisors, team_name, supervisor)
    /\ team_workers' = team_workers \cup SeqToSet(supervisor.workers)
    /\ ret' = NoCall
    /\ UNCHANGED <<engine_vars, sup_vars, thread_vars, ghost_vars>>

\* the loop of remove_worker ends after the first team
HierarchyRemoveWorker(worker_name) ==
    /\ teams # <<>>
    /\ supervisors' = SetSupervisor(supervisors, teams[1],
                           supervisor_remove_worker(supervisors[teams[1]], worker_name))
    /\ team_workers' = team_workers \ {worker_name}
    /\ ret' = NoCall
    /\ UNCHANGED <<teams, coordinator_teams, team_names, engine_vars, sup_vars, thread_vars, ghost_vars>>

HierarchyRemoveTeam(team_name) ==
    /\ team_name \in SeqToSet(teams)
    /\ team_workers' = team_workers \ SeqToSet(supervisors[team_name].workers)
    /\ teams' = DictDel(teams, team_name)
    /\ coordinator_teams' = DictDel(coordinator_teams, team_name)
    /\ team_names' = RemainingTeamNames(coordinator_teams, team_names, team_name)
    /\ supervisors' = DelSupervisor(supervisors, team_name)
    /\ ret' = NoCall
    /\ UNCHANGED <<engine_vars, sup_vars, thread_vars, ghost_vars>>

HierarchyRun(input_text, reply, sup_reply, outcome) ==
    /\ ret' = hierarchy_run(teams, supervisors, coordinator_teams, team_names,
                            input_text, reply, sup_reply, outcome)
    /\ UNCHANGED <<engine_vars, sup_vars, hier_vars, thread_vars, ghost_vars>>

HNext ==
    \/ \E worker \in AgentIds, team_name \in TeamNames : HierarchyAddWorker(worker, team_name)
    \/ \E team_name \in TeamNames, supervisor \in TeamSupervisors :
           HierarchyAddTeam(team_name, supervisor)
    \/ \E worker_name \in AgentIds : HierarchyRemoveWorker(worker_name)
    \/ \E team_name \in TeamNames : HierarchyRemoveTeam(team_name)
    \/ \E input_text \in Tasks, reply \in LlmReplies, sup_reply \in LlmReplies,
          outcome \in HierarchyWorkerOutcomes :
           HierarchyRun(input_text, reply, sup_reply, outcome)

HSpec == Init /\ [][HNext]_vars

\* the names of the workers the teams' supervisors hold
HeldWorkers == UNION {SeqToSet(supervisors[t].workers) : t \in SeqToSet(teams)}

\* C25: after any sequence of add_worker, add_team, remove_worker and
\* remove_team calls on the hierarchy, a worker name is in the hierarchy's
\* worker index exactly when the supervisor of some team holds a worker of
\* that name.
C25_IndexMatchesTeams == team_workers = HeldWorkers

\* C9 as stated: HierarchicalTeam.Run never raises; every failure comes back
\* as a result with an error field.
C9_RunNeverRaises == ret.op = "hierarchy_run" => ret.raised = ""

\* the states of the hierarchy in which the run of the chosen team's
\* supervisor raises before or in the worker
ChosenTeamRaises ==
    \/ ~supervisors[ret.team_used].llm
    \/ supervisors[ret.team_used].workers = <<>>
    \/ ret.outcome = "raises"

\* C9 (amended): HierarchicalTeam.Run raises exactly when the hierarchy has
\* no teams, or the chosen team's supervisor has no llm, or the chosen team
\* has no workers, or the worker raises; in every other state it returns a
\* result for a team of the hierarchy and a worker of that team, and that
\* result has no top-level error field even when the worker's result has one.
C9_RunRaisesExactlyWhenUnconfigured ==
    ret.op = "hierarchy_run" =>
        /\ ret.raised # "" <=> (teams = <<>> \/ ChosenTeamRaises)
        /\ ret.raised = "" =>
               /\ ret.error = ""
               /\ ret.team_error = ""
               /\ ret.team_used \in SeqToSet(teams)
               /\ ret.worker_used \in SeqToSet(supervisors[ret.team_used].workers)

C9_Witness ==
    /\ ret.op = "hierarchy_run"
    /\ ret.raised = "No workers available for supervisor to delegate to"
    /\ Len(teams) = 2

\* C18: add_worker with a team name that is not present creates the team's
\* supervisor and registers it with the coordinator; after any sequence of
\* add_worker, add_team and remove_team the team names the coordinator knows
\* (the keys of its teams and its team_names list) are, as a set, the keys of
\* the hierarchy's teams.
C18_CoordinatorKnowsTheTeams ==
    /\ SeqToSet(coordinator_teams) = SeqToSet(teams)
    /\ SeqToSet(team_names) = SeqToSet(teams)
    /\ DOMAIN supervisors = SeqToSet(teams)
    /\ ret.op = "hierarchy_add_worker" =>
           /\ ret.team_name \in SeqToSet(teams)
           /\ ret.team_name \in SeqToSet(coordinator_teams)
           /\ ret.team_name \in SeqToSet(team_names)

\* add_worker has created a second team
C18_Witness ==
    /\ ret.op = "hierarchy_add_worker"
    /\ ret.created
    /\ Len(teams) = 2
    /\ teams[2] = ret.team_name
    /\ supervisors[ret.team_name].workers # <<>>

(***************************************************************************)
(* The rule-based strategy called directly: workers registered new, with a *)
(* history of slow failures or as busy experts, and route_task calls of    *)
(* the rule_based strategy for every task and context.                     *)
(***************************************************************************)
RuleRegisterInputs(name) ==
    {WorkerCapability(name), SeasonedCapability(name), ExpertCapability(name)}

RuleInputs ==
    {RouteInput(t, "rule_based", c, NoOracle) : t \in RuleTasks, c \in Contexts}

RuleNext ==
    \/ \E id \in AgentIds : \E cap \in RuleRegisterInputs(id) : RegisterAgent(id, cap)
    \/ /\ Len(routing_history) < MaxHistory
       /\ \E agents \in CandidateLists : \E inp \in RuleInputs : RouteTaskOf(agents, inp)

RuleSpec == Init /\ [][RuleNext]_vars

\* the rules in the order the claim names them
UrgentRule == 1
ShortTaskRule == 2
ComplexTaskRule == 3

\* the positions of the candidates that satisfy the filter of rule k
Satisfying(k, ac, candidates) ==
    {i \in 1..Len(candidates) : RuleFilter(k, ac[candidates[i]])}

\* rule k yields a candidate: its predicate holds and some candidate
\* satisfies its filter
Yields(k, ac, task, ctx, candidates) ==
    /\ RuleCondition(k, task, ctx)
    /\ Satisfying(k, ac, candidates) # {}

Least(S) == CHOOSE x \in S : \A y \in S : x <= y

RuleBasedCall ==
    /\ ret.op = "route_task"
    /\ ret.raised = ""
    /\ ret.strategy = "rule_based"
    /\ ret.decision.strategy_used = "rule_based"

\* C23: the rule-based strategy scans the rules in the order urgent, short
\* task, complex task and returns the first candidate, in list order, that
\* satisfies the filter of the first rule whose predicate holds and whose
\* filter some candidate satisfies, with that rule's confidence; a rule whose
\* predicate holds and whose filter no candidate satisfies is passed over; when
\* no rule yields a candidate the first candidate is returned with confidence
\* 0.3.
C23_FirstYieldingRuleDecides ==
    RuleBasedCall =>
        LET candidates == ValidAgents(agent_capabilities, ret.agents)
            yielding == {k \in {UrgentRule, ShortTaskRule, ComplexTaskRule} :
                            Yields(k, agent_capabilities, ret.task, ret.ctx, candidates)}
        IN  IF yielding # {}
            THEN /\ ret.decision.target =
                        candidates[Least(Satisfying(Least(yielding), agent_capabilities,
                                                    candidates))]
                 /\ ret.decision.confidence = _build_default_rules[Least(yielding)].confidence
            ELSE /\ ret.decision.target = candidates[1]
                 /\ ret.decision.confidence = Rat(3, 10)

\* the urgent rule's predicate held and no candidate satisfied its filter; the
\* short-task rule decided, for the second candidate of the list
C23_Witness ==
    /\ RuleBasedCall
    /\ RuleCondition(UrgentRule, ret.task, ret.ctx)
    /\ Satisfying(UrgentRule, agent_capabilities,
                  ValidAgents(agent_capabilities, ret.agents)) = {}
    /\ ret.decision.confidence = _build_default_rules[ShortTaskRule].confidence
    /\ Len(ValidAgents(agent_capabilities, ret.agents)) = 2
    /\ ret.decision.target = ValidAgents(agent_capabilities, ret.agents)[2]
    /\ ret.decision.target # ValidAgents(agent_capabilities, ret.agents)[1]

====
